---- MODULE Spec2Model ----
(***************************************************************************)
(* Model of hc-homie5-smarthome: node description builders, publisher      *)
(* helpers and match_parse of the node publishers, together with the part  *)
(* of the homie5 value codec (HomieValue::parse, PropertyRef matching,     *)
(* HomieDeviceDescription::with_property) that the publishers call.        *)
(*                                                                         *)
(* Payloads and enum tokens are strings, modelled as sequences of          *)
(* one-character strings so that parsing and formatting are computed.      *)
(* Ids (domain, device id, node id, property id) are only ever compared,   *)
(* so they are TLA+ strings.  f64 values are fixed-point numbers counted   *)
(* in tenths.                                               *)
(***************************************************************************)
EXTENDS Integers, Sequences, FiniteSets, TLC

\* Option<T>: None is the empty tuple, Some(x) the one-element tuple.
None == <<>>
Some(x) == <<x>>
IsSome(o) == Len(o) = 1
Unwrap(o) == o[1]

----------------------------------------------------------------------------
(* Bounds of the payload universe. *)

\* longest payload enumerated over PayloadAlphabet
MaxLen == 3

\* characters the enumerated payloads are built from
PayloadAlphabet == {"0", "1", "4", "5", "9", "-", ".", "a"}

----------------------------------------------------------------------------
(* Rust string <-> number conversions. *)

DigitChars == <<"0", "1", "2", "3", "4", "5", "6", "7", "8", "9">>

IsDigit(c) == \E i \in 1..10 : DigitChars[i] = c

DigitVal(c) == (CHOOSE i \in 1..10 : DigitChars[i] = c) - 1

AllDigits(s) == \A i \in 1..Len(s) : IsDigit(s[i])

RECURSIVE DigitsValue(_)
\* value of a non-empty all-digit string
DigitsValue(s) ==
    IF Len(s) = 0 THEN 0
    ELSE 10 * DigitsValue(SubSeq(s, 1, Len(s) - 1)) + DigitVal(s[Len(s)])

IsSigned(s) == Len(s) > 0 /\ s[1] \in {"+", "-"}

\* the literal without its sign
Unsigned(s) == IF IsSigned(s) THEN Tail(s) ELSE s

\* the magnitude with the sign of the literal s
WithSign(s, mag) == IF IsSigned(s) /\ s[1] = "-" THEN 0 - mag ELSE mag

ParseDigits(s, body) ==
    IF Len(body) = 0 \/ ~AllDigits(body) THEN None ELSE Some(WithSign(s, DigitsValue(body)))

\* str::parse::<i64>: optional single sign, then one or more digits
ParseI64(s) == ParseDigits(s, Unsigned(s))

RECURSIVE NatToString(_)
NatToString(n) ==
    IF n < 10 THEN <<DigitChars[n + 1]>>
    ELSE NatToString(n \div 10) \o <<DigitChars[(n % 10) + 1]>>

\* i64::to_string
I64ToString(n) == IF n < 0 THEN <<"-">> \o NatToString(0 - n) ELSE NatToString(n)

\* position of the first "." of s, 0 when there is none
DotIndex(s) ==
    IF \E i \in 1..Len(s) : s[i] = "."
    THEN CHOOSE i \in 1..Len(s) : s[i] = "." /\ \A j \in 1..(i - 1) : s[j] # "."
    ELSE 0

IntPart(body, dot) == IF dot = 0 THEN body ELSE SubSeq(body, 1, dot - 1)

FracPart(body, dot) == IF dot = 0 THEN <<>> ELSE SubSeq(body, dot + 1, Len(body))

ParseDecimal(s, ip, fp) ==
    IF Len(ip) + Len(fp) = 0 \/ ~AllDigits(ip) \/ ~AllDigits(fp) \/ Len(fp) > 1
    THEN None
    ELSE Some(WithSign(s, 10 * DigitsValue(ip) + (IF Len(fp) = 1 THEN DigitVal(fp[1]) ELSE 0)))

ParseUnsignedF64(s, body, dot) == ParseDecimal(s, IntPart(body, dot), FracPart(body, dot))

\* str::parse::<f64> on decimal literals with at most one fractional digit:
\* optional sign, digits, optional "." and fraction, at least one digit in all.
\* The value is returned in tenths.
ParseF64(s) == ParseUnsignedF64(s, Unsigned(s), DotIndex(Unsigned(s)))

Abs(t) == IF t < 0 THEN 0 - t ELSE t

\* f64::to_string (Display): shortest decimal, no fraction for whole numbers
F64ToString(t) ==
    (IF t < 0 THEN <<"-">> ELSE <<>>)
    \o NatToString(Abs(t) \div 10)
    \o (IF Abs(t) % 10 = 0 THEN <<>> ELSE <<".", DigitChars[(Abs(t) % 10) + 1]>>)

\* bool::to_string
BoolToString(b) == IF b THEN <<"t", "r", "u", "e">> ELSE <<"f", "a", "l", "s", "e">>

\* str::parse::<bool>
ParseBool(s) ==
    IF s = <<"t", "r", "u", "e">> THEN Some(TRUE)
    ELSE IF s = <<"f", "a", "l", "s", "e">> THEN Some(FALSE)
    ELSE None

\* position of the first "," of s, 0 when there is none
CommaIndex(s) ==
    IF \E k \in 1..Len(s) : s[k] = ","
    THEN CHOOSE k \in 1..Len(s) : s[k] = "," /\ \A j \in 1..(k - 1) : s[j] # ","
    ELSE 0

RECURSIVE Split(_)
\* str::split(','): the comma-separated fields of s
Split(s) ==
    IF CommaIndex(s) = 0 THEN <<s>>
    ELSE <<SubSeq(s, 1, CommaIndex(s) - 1)>> \o Split(SubSeq(s, CommaIndex(s) + 1, Len(s)))

RECURSIVE Join(_)
\* fields joined with ','
Join(fs) == IF Len(fs) = 1 THEN fs[1] ELSE fs[1] \o <<",">> \o Join(Tail(fs))

----------------------------------------------------------------------------
(* String literals used by the node types. *)

S_on == <<"o", "n">>
S_off == <<"o", "f", "f">>
S_true == <<"t", "r", "u", "e">>
S_false == <<"f", "a", "l", "s", "e">>
S_toggle == <<"t", "o", "g", "g", "l", "e">>
S_brighter == <<"b", "r", "i", "g", "h", "t", "e", "r">>
S_darker == <<"d", "a", "r", "k", "e", "r">>
S_up == <<"u", "p">>
S_down == <<"d", "o", "w", "n">>
S_stop == <<"s", "t", "o", "p">>
S_open == <<"o", "p", "e", "n">>
S_auto == <<"a", "u", "t", "o">>
S_manual == <<"m", "a", "n", "u", "a", "l">>
S_party == <<"p", "a", "r", "t", "y">>
S_boost == <<"b", "o", "o", "s", "t">>
S_cool == <<"c", "o", "o", "l">>
S_heat == <<"h", "e", "a", "t">>
S_emergency_heating == <<"e", "m", "e", "r", "g", "e", "n", "c", "y", "-", "h", "e", "a", "t", "i", "n", "g">>
S_precooling == <<"p", "r", "e", "c", "o", "o", "l", "i", "n", "g">>
S_fan_only == <<"f", "a", "n", "-", "o", "n", "l", "y">>
S_dry == <<"d", "r", "y">>
S_sleep == <<"s", "l", "e", "e", "p">>
S_abc == <<"a", "b", "c">>
S_rgb == <<"r", "g", "b">>
S_hsv == <<"h", "s", "v">>
S_xyz == <<"x", "y", "z">>
S_evening == <<"e", "v", "e", "n", "i", "n", "g">>
S_movie == <<"m", "o", "v", "i", "e">>
S_100 == <<"1", "0", "0">>
S_101 == <<"1", "0", "1">>
S_150 == <<"1", "5", "0">>
WP_plus5 == <<"+", "5">>
WP_On == <<"O", "n">>
WP_TRUE == <<"T", "R", "U", "E">>
WP_20_3 == <<"2", "0", ".", "3">>
WP_20_5 == <<"2", "0", ".", "5">>
WP_rgb == <<"r", "g", "b", ",", "1", ",", "5", ",", "9">>
WP_hsv == <<"h", "s", "v", ",", "1", ",", "5", ",", "9">>
WP_xyz == <<"x", "y", "z", ",", "0", ".", "2", ",", "0", ".", "3">>
WP_rgb2 == <<"r", "g", "b", ",", "1", ",", "5">>

----------------------------------------------------------------------------
(* homie5: value formats, property descriptions and HomieValue::parse. *)

BooleanFormat(f, t) == [kind |-> "Boolean", false_val |-> f, true_val |-> t]
IntegerRange(min, max, step) == [kind |-> "IntegerRange", min |-> min, max |-> max, step |-> step]
FloatRange(min, max, step) == [kind |-> "FloatRange", min |-> min, max |-> max, step |-> step]
EnumFormat(values) == [kind |-> "Enum", values |-> values]
ColorFormat(formats) == [kind |-> "Color", formats |-> formats]

\* PropertyDescriptionBuilder::new(datatype).format(..).settable(..).retained(..).build()
PropertyDescription(datatype, format, settable, retained) ==
    [datatype |-> datatype, format |-> format, settable |-> settable, retained |-> retained]

Contains(seq, x) == \E i \in 1..Len(seq) : seq[i] = x

\* f64::round / the integer variant: a / s rounded half away from zero (s > 0)
RoundDiv(a, s) ==
    IF a >= 0 THEN (2 * a + s) \div (2 * s) ELSE 0 - ((2 * (0 - a) + s) \div (2 * s))

\* the base of the step grid: min, else max, else the value itself
RangeBase(value, range) ==
    IF IsSome(range.min) THEN Unwrap(range.min)
    ELSE IF IsSome(range.max) THEN Unwrap(range.max)
    ELSE value

\* a validation that leaves the value off the step grid
RoundToStep_Unrounded(value, base, step) == value

RoundToStep(value, base, step) ==
    IF IsSome(step) /\ Unwrap(step) > 0
    THEN RoundDiv(value - base, Unwrap(step)) * Unwrap(step) + base
    ELSE value

CheckBounds(rounded, range) ==
    IF (IsSome(range.min) /\ rounded < Unwrap(range.min))
       \/ (IsSome(range.max) /\ rounded > Unwrap(range.max))
    THEN None
    ELSE Some(rounded)

\* HomieValue::validate_int / validate_float: round to the step grid anchored at
\* min (else max, else the value), then check the bounds
ValidateRange(value, range) ==
    CheckBounds(RoundToStep(value, RangeBase(value, range), range.step), range)

ColorInts(format, a, b, c) ==
    IF IsSome(a) /\ IsSome(b) /\ IsSome(c)
    THEN Some([format |-> format, c |-> <<Unwrap(a), Unwrap(b), Unwrap(c)>>])
    ELSE None

ColorXyz(x, y) ==
    IF IsSome(x) /\ IsSome(y)
    THEN Some([format |-> "xyz", c |-> <<Unwrap(x), Unwrap(y), 10 - Unwrap(x) - Unwrap(y)>>])
    ELSE None

ParseColorFields(f) ==
    IF f[1] \in {S_rgb, S_hsv} /\ Len(f) = 4
    THEN ColorInts(IF f[1] = S_rgb THEN "rgb" ELSE "hsv", ParseI64(f[2]), ParseI64(f[3]), ParseI64(f[4]))
    ELSE IF f[1] = S_xyz /\ Len(f) = 3
    THEN ColorXyz(ParseF64(f[2]), ParseF64(f[3]))
    ELSE None

\* HomieColorValue::from_str: "rgb,r,g,b", "hsv,h,s,v" (integers), "xyz,x,y" (floats)
ParseColor(s) == ParseColorFields(Split(s))

\* Display for HomieColorValue
ColorToString(v) ==
    IF v.format = "xyz" THEN Join(<<S_xyz, F64ToString(v.c[1]), F64ToString(v.c[2])>>)
    ELSE Join(<<IF v.format = "rgb" THEN S_rgb ELSE S_hsv,
                I64ToString(v.c[1]), I64ToString(v.c[2]), I64ToString(v.c[3])>>)

HomieValue(tag, v) == [tag |-> tag, v |-> v]

\* Ok(HomieValue::<tag>(v)) for Ok(v), Err otherwise
Tagged(tag, o) == IF IsSome(o) THEN Some(HomieValue(tag, Unwrap(o))) ELSE None

\* and_then(|d| validate(d, property_desc)): the range check applies under a range format
Validated(p, fmt, kind) ==
    IF IsSome(p) /\ fmt.kind = kind THEN ValidateRange(Unwrap(p), fmt) ELSE p

EnumMember(raw, fmt) == IF fmt.kind = "Enum" /\ Contains(fmt.values, raw) THEN Some(raw) ELSE None

ColorAllowed(p, fmt) ==
    IF fmt.kind = "Color" /\ IsSome(p) /\ Contains(fmt.formats, Unwrap(p).format) THEN p ELSE None

\* HomieValue::parse(raw, property_desc) -> Result<HomieValue, _>; Err is None
HomieValue_parse(raw, prop_desc) ==
    CASE prop_desc.datatype = "Integer" ->
            Tagged("Integer", Validated(ParseI64(raw), prop_desc.format, "IntegerRange"))
      [] prop_desc.datatype = "Float" ->
            Tagged("Float", Validated(ParseF64(raw), prop_desc.format, "FloatRange"))
      [] prop_desc.datatype = "Boolean" -> Tagged("Bool", ParseBool(raw))
      [] prop_desc.datatype = "Enum" -> Tagged("Enum", EnumMember(raw, prop_desc.format))
      [] prop_desc.datatype = "Color" -> Tagged("Color", ColorAllowed(ParseColor(raw), prop_desc.format))
      [] OTHER -> Some(HomieValue("String", raw))

----------------------------------------------------------------------------
(* homie5: references, device description lookup, outbound messages. *)

DeviceRef(domain, id) == [domain |-> domain, id |-> id]
NodeRef(domain, id, node_id) == [domain |-> domain, id |-> id, node_id |-> node_id]
PropertyRef(domain, id, node_id, prop_id) ==
    [domain |-> domain, id |-> id, node_id |-> node_id, prop_id |-> prop_id]

\* PropertyRef::match_with_node(node, prop_id)
match_with_node(property, node, prop_id) ==
    /\ property.domain = node.domain
    /\ property.id = node.id
    /\ property.node_id = node.node_id
    /\ property.prop_id = prop_id

\* PropertyRef::match_with_device(device, node_id, prop_id)
match_with_device(property, device, node_id, prop_id) ==
    /\ property.domain = device.domain
    /\ property.id = device.id
    /\ property.node_id = node_id
    /\ property.prop_id = prop_id

\* NodeDescriptionBuilder: the properties of a node, in declaration order
EmptyNode == <<>>

PropIds(node) == [i \in 1..Len(node) |-> node[i].id]

\* NodeDescriptionBuilder::add_property: insert, replacing an entry of the same id
add_property(node, prop_id, prop_desc) ==
    IF Contains(PropIds(node), prop_id)
    THEN [i \in 1..Len(node) |->
            IF node[i].id = prop_id THEN [id |-> prop_id, desc |-> prop_desc] ELSE node[i]]
    ELSE Append(node, [id |-> prop_id, desc |-> prop_desc])

\* NodeDescriptionBuilder::add_property_cond: add only when the gate is true
add_property_cond(node, prop_id, cond, prop_desc) ==
    IF cond THEN add_property(node, prop_id, prop_desc) ELSE node

\* HomieNodeDescription.properties.get(prop_id)
get_property(node, prop_id) ==
    IF \E i \in 1..Len(node) : node[i].id = prop_id
    THEN Some((node[CHOOSE i \in 1..Len(node) : node[i].id = prop_id]).desc)
    ELSE None

\* HomieDeviceDescription::with_property(property, f): the description of the
\* property under (node id, property id), None when the node or property is absent
with_property(desc, property) ==
    IF property.node_id \in DOMAIN desc
    THEN get_property(desc[property.node_id], property.prop_id)
    ELSE None

\* Homie5DeviceProtocol::publish_value / publish_target
publish_value(client, node_id, prop_id, payload, retained) ==
    [topic |-> [domain |-> client.domain, id |-> client.id, node_id |-> node_id,
                prop_id |-> prop_id, attr |-> "value"],
     payload |-> payload, retain |-> retained]

publish_target(client, node_id, prop_id, payload, retained) ==
    [topic |-> [domain |-> client.domain, id |-> client.id, node_id |-> node_id,
                prop_id |-> prop_id, attr |-> "$target"],
     payload |-> payload, retain |-> retained]

----------------------------------------------------------------------------
(* Shared shape of every match_parse branch:                               *)
(*   desc.with_property(property, |prop_desc|                              *)
(*       if let Ok(HomieValue::<tag>(value)) = HomieValue::parse(..) ..)?  *)
(* The value of the expected variant, None when the property is not in the *)
(* description, the payload does not parse, or parses to another variant.  *)

parse_with(pd, set_value) ==
    IF IsSome(pd) THEN HomieValue_parse(set_value, Unwrap(pd)) ELSE None

variant(tag, r) == IF IsSome(r) /\ Unwrap(r).tag = tag THEN Some(Unwrap(r).v) ELSE None

parsed_as(desc, property, set_value, tag) ==
    variant(tag, parse_with(with_property(desc, property), set_value))

Event(tag, v) == [tag |-> tag, v |-> v]

\* Some(Events::<tag>(value)) for Some(value), None otherwise
EventOf(tag, o) == IF IsSome(o) THEN Some(Event(tag, Unwrap(o))) ELSE None

\* XNodePublisher::new(NodeRef::new(client.homie_domain(), client.id(), node_id), client)
Publisher(kind, client, node_id, config) ==
    [kind |-> kind, client |-> client,
     node |-> NodeRef(client.domain, client.id, node_id), config |-> config]

----------------------------------------------------------------------------
(* switch_node.rs *)

SwitchNode_build_node(db, config) ==
    add_property(
        add_property(db, "state",
            PropertyDescription("Boolean", BooleanFormat(S_off, S_on), config.settable, TRUE)),
        "action",
        PropertyDescription("Enum", EnumFormat(<<S_toggle>>), config.settable, FALSE))

\* Display for SwitchNodeActions
SwitchNodeActions_to_string(a) == S_toggle

\* a conversion that takes every token for Toggle
SwitchNodeActions_try_from_AnyToken(value) == Some("Toggle")

\* TryFrom<String> for SwitchNodeActions
SwitchNodeActions_try_from(value) == IF value = S_toggle THEN Some("Toggle") ELSE None

SwitchNodeActions_try_from_opt(o) == IF IsSome(o) THEN SwitchNodeActions_try_from(Unwrap(o)) ELSE None

\* mutant: the payload is the word of the declared boolean format
SwitchNode_state_Words(self, value) ==
    publish_value(self.client, self.node.node_id, "state", IF value THEN S_on ELSE S_off, TRUE)

SwitchNode_state(self, value) ==
    publish_value(self.client, self.node.node_id, "state", BoolToString(value), TRUE)

SwitchNode_state_target(self, value) ==
    publish_target(self.client, self.node.node_id, "state", BoolToString(value), TRUE)

SwitchNode_action(self) ==
    publish_value(self.client, self.node.node_id, "action", SwitchNodeActions_to_string("Toggle"), FALSE)

\* mutant: the target is matched by property id alone
SwitchNode_match_parse_PropOnly(self, property, desc, set_value) ==
    IF property.prop_id = "state" THEN
        EventOf("State", parsed_as(desc, property, set_value, "Bool"))
    ELSE IF property.prop_id = "action" THEN
        EventOf("Action", SwitchNodeActions_try_from_opt(parsed_as(desc, property, set_value, "Enum")))
    ELSE None

\* mutant: the state payload is decoded with the words of the boolean format
SwitchNode_match_parse_Words(self, property, desc, set_value) ==
    IF match_with_device(property, self.client, self.node.node_id, "state") THEN
        IF with_property(desc, property) = None THEN None
        ELSE IF set_value = Unwrap(with_property(desc, property)).format.true_val
        THEN Some(Event("State", TRUE))
        ELSE IF set_value = Unwrap(with_property(desc, property)).format.false_val
        THEN Some(Event("State", FALSE))
        ELSE None
    ELSE IF match_with_node(property, self.node, "action") THEN
        EventOf("Action", SwitchNodeActions_try_from_opt(parsed_as(desc, property, set_value, "Enum")))
    ELSE None

SwitchNode_match_parse(self, property, desc, set_value) ==
    IF match_with_device(property, self.client, self.node.node_id, "state") THEN
        EventOf("State", parsed_as(desc, property, set_value, "Bool"))
    ELSE IF match_with_node(property, self.node, "action") THEN
        EventOf("Action", SwitchNodeActions_try_from_opt(parsed_as(desc, property, set_value, "Enum")))
    ELSE None

----------------------------------------------------------------------------
(* dimmer_node.rs *)

\* mutant: the brightness range ends one too high
DimmerNode_build_node_Max101(db, config) ==
    add_property(
        add_property(db, "brightness",
            PropertyDescription("Integer", IntegerRange(Some(0), Some(101), None), config.settable, TRUE)),
        "action",
        PropertyDescription("Enum", EnumFormat(<<S_brighter, S_darker>>), config.settable, FALSE))

DimmerNode_build_node(db, config) ==
    add_property(
        add_property(db, "brightness",
            PropertyDescription("Integer", IntegerRange(Some(0), Some(100), None), config.settable, TRUE)),
        "action",
        PropertyDescription("Enum", EnumFormat(<<S_brighter, S_darker>>), config.settable, FALSE))

\* FromStr for DimmerNodeActions
DimmerNodeActions_from_str(s) ==
    IF s = S_brighter THEN Some("Brighter")
    ELSE IF s = S_darker THEN Some("Darker")
    ELSE None

DimmerNodeActions_from_str_opt(o) == IF IsSome(o) THEN DimmerNodeActions_from_str(Unwrap(o)) ELSE None

DimmerNode_brightness(self, value) ==
    publish_value(self.client, self.node.node_id, "brightness", I64ToString(value), TRUE)

DimmerNode_brightness_target(self, value) ==
    publish_target(self.client, self.node.node_id, "brightness", I64ToString(value), TRUE)

DimmerNode_action(self, action) ==
    publish_value(self.client, self.node.node_id, "action",
                  IF action = "Brighter" THEN S_brighter ELSE S_darker, FALSE)

\* mutant: the brightness payload is parsed without the property description
DimmerNode_match_parse_NoValidate(self, property, desc, set_value) ==
    IF match_with_node(property, self.node, "brightness") THEN
        EventOf("Brightness", ParseI64(set_value))
    ELSE IF match_with_node(property, self.node, "action") THEN
        EventOf("Action", DimmerNodeActions_from_str_opt(parsed_as(desc, property, set_value, "Enum")))
    ELSE None

DimmerNode_match_parse(self, property, desc, set_value) ==
    IF match_with_node(property, self.node, "brightness") THEN
        EventOf("Brightness", parsed_as(desc, property, set_value, "Integer"))
    ELSE IF match_with_node(property, self.node, "action") THEN
        EventOf("Action", DimmerNodeActions_from_str_opt(parsed_as(desc, property, set_value, "Enum")))
    ELSE None

----------------------------------------------------------------------------
(* shutter_node.rs *)

\* From<&ShutterNodeActions> for &'static str / Display
ShutterNodeActions_to_string(a) ==
    IF a = "Up" THEN S_up ELSE IF a = "Down" THEN S_down ELSE S_stop

\* FromStr for ShutterNodeActions
ShutterNodeActions_from_str(s) ==
    IF s = S_up THEN Some("Up")
    ELSE IF s = S_down THEN Some("Down")
    ELSE IF s = S_stop THEN Some("Stop")
    ELSE None

ShutterNodeActions_from_str_opt(o) == IF IsSome(o) THEN ShutterNodeActions_from_str(Unwrap(o)) ELSE None

\* mutant: stop is advertised whatever can_stop says
ShutterNode_build_node_AlwaysStop(db, config) ==
    add_property(
        add_property(db, "position",
            PropertyDescription("Integer", IntegerRange(Some(0), Some(100), None), TRUE, TRUE)),
        "action",
        PropertyDescription("Enum", EnumFormat(<<S_up, S_down, S_stop>>), TRUE, FALSE))

ShutterNode_build_node(db, config) ==
    LET actions == <<"Up", "Down">> \o (IF config.can_stop THEN <<"Stop">> ELSE <<>>)
    IN  add_property(
            add_property(db, "position",
                PropertyDescription("Integer", IntegerRange(Some(0), Some(100), None), TRUE, TRUE)),
            "action",
            PropertyDescription("Enum",
                EnumFormat([i \in 1..Len(actions) |-> ShutterNodeActions_to_string(actions[i])]),
                TRUE, FALSE))

ShutterNode_position(self, value) ==
    publish_value(self.client, self.node.node_id, "position", I64ToString(value), TRUE)

ShutterNode_position_target(self, value) ==
    publish_target(self.client, self.node.node_id, "position", I64ToString(value), TRUE)

ShutterNode_action(self, action) ==
    publish_value(self.client, self.node.node_id, "action", ShutterNodeActions_to_string(action), FALSE)

ShutterNode_match_parse(self, property, desc, set_value) ==
    IF match_with_node(property, self.node, "position") THEN
        EventOf("Position", parsed_as(desc, property, set_value, "Integer"))
    ELSE IF match_with_node(property, self.node, "action") THEN
        EventOf("Action", ShutterNodeActions_from_str_opt(parsed_as(desc, property, set_value, "Enum")))
    ELSE None

----------------------------------------------------------------------------
(* colorlight_node.rs *)

ColorlightNode_build_node(db, config) ==
    add_property(
        add_property(db, "color",
            PropertyDescription("Color", ColorFormat(config.color_formats), config.settable, TRUE)),
        "color-temperature",
        PropertyDescription("Integer",
            IntegerRange(Some(config.ctmin), Some(config.ctmax), None), config.settable, TRUE))

ColorlightNode_color(self, value) ==
    publish_value(self.client, self.node.node_id, "color", ColorToString(value), TRUE)

ColorlightNode_color_target(self, value) ==
    publish_target(self.client, self.node.node_id, "color", ColorToString(value), TRUE)

ColorlightNode_color_temperature(self, value) ==
    publish_value(self.client, self.node.node_id, "color-temperature", I64ToString(value), TRUE)

ColorlightNode_color_temperature_target(self, value) ==
    publish_target(self.client, self.node.node_id, "color-temperature", I64ToString(value), TRUE)

ColorlightNode_match_parse(self, property, desc, set_value) ==
    IF match_with_node(property, self.node, "color") THEN
        EventOf("Color", parsed_as(desc, property, set_value, "Color"))
    ELSE IF match_with_node(property, self.node, "color-temperature") THEN
        EventOf("ColorTemperature", parsed_as(desc, property, set_value, "Integer"))
    ELSE None

----------------------------------------------------------------------------
(* thermostat_node.rs *)

ThermostatNodeModes ==
    <<"Off", "Auto", "Manual", "Party", "Boost", "Cool", "Heat", "EmergencyHeating",
      "Precooling", "FanOnly", "Dry", "Sleep">>

\* mutant: one mode is written differently from what try_from reads
ThermostatNodeModes_as_str_Typo(m) ==
    CASE m = "Off" -> S_off
      [] m = "Auto" -> S_auto
      [] m = "Manual" -> <<"m", "a", "n", "u", "e", "l">>
      [] m = "Party" -> S_party
      [] m = "Boost" -> S_boost
      [] m = "Cool" -> S_cool
      [] m = "Heat" -> S_heat
      [] m = "EmergencyHeating" -> S_emergency_heating
      [] m = "Precooling" -> S_precooling
      [] m = "FanOnly" -> S_fan_only
      [] m = "Dry" -> S_dry
      [] m = "Sleep" -> S_sleep

ThermostatNodeModes_as_str(m) ==
    CASE m = "Off" -> S_off
      [] m = "Auto" -> S_auto
      [] m = "Manual" -> S_manual
      [] m = "Party" -> S_party
      [] m = "Boost" -> S_boost
      [] m = "Cool" -> S_cool
      [] m = "Heat" -> S_heat
      [] m = "EmergencyHeating" -> S_emergency_heating
      [] m = "Precooling" -> S_precooling
      [] m = "FanOnly" -> S_fan_only
      [] m = "Dry" -> S_dry
      [] m = "Sleep" -> S_sleep

\* TryFrom<&str> for ThermostatNodeModes
ThermostatNodeModes_try_from(value) ==
    CASE value = S_off -> Some("Off")
      [] value = S_auto -> Some("Auto")
      [] value = S_manual -> Some("Manual")
      [] value = S_party -> Some("Party")
      [] value = S_boost -> Some("Boost")
      [] value = S_cool -> Some("Cool")
      [] value = S_heat -> Some("Heat")
      [] value = S_emergency_heating -> Some("EmergencyHeating")
      [] value = S_precooling -> Some("Precooling")
      [] value = S_fan_only -> Some("FanOnly")
      [] value = S_dry -> Some("Dry")
      [] value = S_sleep -> Some("Sleep")
      [] OTHER -> None

ThermostatNodeModes_try_from_opt(o) == IF IsSome(o) THEN ThermostatNodeModes_try_from(Unwrap(o)) ELSE None

ThermostatNode_build_node(db, config) ==
    LET p1 == add_property(db, "set-temperature",
                  PropertyDescription("Float", config.temp_range, TRUE, TRUE))
        p2 == add_property_cond(p1, "valve", config.valve,
                  PropertyDescription("Integer", IntegerRange(Some(0), Some(100), None), FALSE, TRUE))
        p3 == add_property_cond(p2, "windowopen", config.windowopen,
                  PropertyDescription("Boolean", BooleanFormat(<<"c", "l", "o", "s", "e", "d">>, S_open), FALSE, TRUE))
        p4 == add_property_cond(p3, "boost-state", config.boost_state,
                  PropertyDescription("Integer", IntegerRange(Some(0), None, None), FALSE, TRUE))
    IN  add_property_cond(p4, "mode", config.mode,
            PropertyDescription("Enum",
                EnumFormat([i \in 1..Len(config.modes) |-> ThermostatNodeModes_as_str(config.modes[i])]),
                TRUE, FALSE))

ThermostatNode_set_temperature(self, value) ==
    publish_value(self.client, self.node.node_id, "set-temperature", F64ToString(value), TRUE)

ThermostatNode_set_temperature_target(self, value) ==
    publish_target(self.client, self.node.node_id, "set-temperature", F64ToString(value), TRUE)

ThermostatNode_mode(self, mode) ==
    publish_value(self.client, self.node.node_id, "mode", ThermostatNodeModes_as_str(mode), TRUE)

ThermostatNode_mode_target(self, mode) ==
    publish_target(self.client, self.node.node_id, "mode", ThermostatNodeModes_as_str(mode), TRUE)

ThermostatNode_boost(self, value) ==
    publish_value(self.client, self.node.node_id, "boost-state", I64ToString(value), TRUE)

ThermostatNode_valve(self, value) ==
    publish_value(self.client, self.node.node_id, "valve", I64ToString(value), TRUE)

ThermostatNode_windowopen(self, value) ==
    publish_value(self.client, self.node.node_id, "windowopen", BoolToString(value), TRUE)

\* mutant: the mode payload is mapped without looking the property up
ThermostatNode_match_parse_NoDesc(self, property, desc, set_value) ==
    IF match_with_node(property, self.node, "set-temperature") THEN
        EventOf("SetTemperature", parsed_as(desc, property, set_value, "Float"))
    ELSE IF match_with_node(property, self.node, "mode") THEN
        EventOf("Mode", ThermostatNodeModes_try_from(set_value))
    ELSE None

ThermostatNode_match_parse(self, property, desc, set_value) ==
    IF match_with_node(property, self.node, "set-temperature") THEN
        EventOf("SetTemperature", parsed_as(desc, property, set_value, "Float"))
    ELSE IF match_with_node(property, self.node, "mode") THEN
        EventOf("Mode", ThermostatNodeModes_try_from_opt(parsed_as(desc, property, set_value, "Enum")))
    ELSE None

----------------------------------------------------------------------------
(* light_scene_node.rs *)

LightSceneNode_build_node(db, config) ==
    add_property(db, "recall",
        PropertyDescription("Enum", EnumFormat(config.scenes), config.settable, FALSE))

\* LightSceneNodePublisher::recall -> Option<Publish>
LightSceneNode_recall(self, scene) ==
    IF Contains(self.config.scenes, scene)
    THEN Some(publish_value(self.client, self.node.node_id, "recall", scene, FALSE))
    ELSE None

LightSceneNode_match_parse(self, property, desc, set_value) ==
    IF match_with_node(property, self.node, "recall") THEN
        EventOf("Recall", parsed_as(desc, property, set_value, "Enum"))
    ELSE None

\* what LightSceneNodePublisher::match_parse writes to standard output: its
\* println! calls, each as the format string and its arguments
LightSceneNode_match_parse_stdout(self, property, desc, set_value) ==
    <<[fmt |-> "returning parsed scene: {}, {:#?}", args |-> <<set_value, property>>]>>
    \o (IF /\ match_with_node(property, self.node, "recall")
           /\ IsSome(parsed_as(desc, property, set_value, "Enum"))
        THEN <<[fmt |-> "returning parsed scene: {}",
                args |-> <<Unwrap(parsed_as(desc, property, set_value, "Enum"))>>]>>
        ELSE <<>>)

----------------------------------------------------------------------------
(* contact_node.rs *)

ContactNode_build_node(db) ==
    add_property(db, "state",
        PropertyDescription("Boolean", BooleanFormat(<<"c", "l", "o", "s", "e", "d">>, S_open), FALSE, TRUE))

ContactNode_state(self, value) ==
    publish_value(self.client, self.node.node_id, "state", BoolToString(value), TRUE)

----------------------------------------------------------------------------
(* maintenance_node.rs *)

\* a property built without .format(..): HomiePropertyFormat::Empty
NoFormat == [kind |-> "Empty"]

\* mutant: the battery level is advertised whatever the config says
MaintenanceNode_build_node_Always(db, config) ==
    add_property_cond(
        add_property_cond(
            add_property(
                add_property_cond(db, "low-battery", config.low_battery,
                    PropertyDescription("Boolean", NoFormat, FALSE, TRUE)),
                "battery-level",
                PropertyDescription("Integer", NoFormat, FALSE, TRUE)),
            "last-update", config.last_update,
            PropertyDescription("Datetime", NoFormat, FALSE, TRUE)),
        "reachable", config.reachable,
        PropertyDescription("Boolean", NoFormat, FALSE, TRUE))

MaintenanceNode_build_node(db, config) ==
    add_property_cond(
        add_property_cond(
            add_property_cond(
                add_property_cond(db, "low-battery", config.low_battery,
                    PropertyDescription("Boolean", NoFormat, FALSE, TRUE)),
                "battery-level", config.battery_level,
                PropertyDescription("Integer", NoFormat, FALSE, TRUE)),
            "last-update", config.last_update,
            PropertyDescription("Datetime", NoFormat, FALSE, TRUE)),
        "reachable", config.reachable,
        PropertyDescription("Boolean", NoFormat, FALSE, TRUE))

\* n written with at least w digits
RECURSIVE Pad(_, _)
Pad(n, w) == IF w <= 1 THEN NatToString(n) ELSE Pad(n \div 10, w - 1) \o NatToString(n % 10)

\* DateTime<Utc>::to_rfc3339_opts(SecondsFormat::Millis, true)
to_rfc3339_opts(t) ==
    Pad(t.year, 4) \o <<"-">> \o Pad(t.month, 2) \o <<"-">> \o Pad(t.day, 2) \o <<"T">>
    \o Pad(t.hour, 2) \o <<":">> \o Pad(t.minute, 2) \o <<":">> \o Pad(t.second, 2)
    \o <<".">> \o Pad(t.millis, 3) \o <<"Z">>

\* MaintenanceNodePublisher::low_battery, battery_level, last_update, reachable:
\* Option<Publish>, None when the config disables the property
MaintenanceNodePublisher(self, h, value) ==
    CASE h = "low_battery" ->
            IF ~self.config.low_battery THEN None
            ELSE Some(publish_value(self.client, self.node.node_id, "low-battery", BoolToString(value), TRUE))
      [] h = "battery_level" ->
            IF ~self.config.battery_level THEN None
            ELSE Some(publish_value(self.client, self.node.node_id, "battery-level", I64ToString(value), TRUE))
      [] h = "last_update" ->
            IF ~self.config.last_update THEN None
            ELSE Some(publish_value(self.client, self.node.node_id, "last-update", to_rfc3339_opts(value), TRUE))
      [] h = "reachable" ->
            IF ~self.config.reachable THEN None
            ELSE Some(publish_value(self.client, self.node.node_id, "reachable", BoolToString(value), TRUE))

----------------------------------------------------------------------------
(* weather_node.rs *)

WeatherNode_build_node(db, config) ==
    add_property_cond(
        add_property_cond(
            add_property_cond(db, "temperature", config.temperature,
                PropertyDescription("Float", NoFormat, FALSE, TRUE)),
            "humidity", config.humidity,
            PropertyDescription("Integer", NoFormat, FALSE, TRUE)),
        "pressure", config.pressure,
        PropertyDescription("Float", NoFormat, FALSE, TRUE))

\* WeatherNodePublisher::temperature, humidity, pressure
WeatherNodePublisher(self, h, value) ==
    CASE h = "temperature" -> publish_value(self.client, self.node.node_id, "temperature", F64ToString(value), TRUE)
      [] h = "humidity" -> publish_value(self.client, self.node.node_id, "humidity", I64ToString(value), TRUE)
      [] h = "pressure" -> publish_value(self.client, self.node.node_id, "pressure", F64ToString(value), TRUE)

----------------------------------------------------------------------------
(* motion_node.rs *)

MotionNode_build_node(db, config) ==
    add_property_cond(
        add_property(db, "motion",
            PropertyDescription("Boolean", BooleanFormat(<<"n", "o", "-", "m", "o", "t", "i", "o", "n">>, <<"m", "o", "t", "i", "o", "n">>), FALSE, TRUE)),
        "lux", config.lux,
        PropertyDescription("Integer", NoFormat, FALSE, TRUE))

\* MotionNodePublisher::motion, lux
MotionNodePublisher(self, h, value) ==
    CASE h = "motion" -> publish_value(self.client, self.node.node_id, "motion", BoolToString(value), TRUE)
      [] h = "lux" -> publish_value(self.client, self.node.node_id, "lux", I64ToString(value), TRUE)

----------------------------------------------------------------------------
(* vibration_node.rs *)

VibrationNode_build_node(db, config) ==
    add_property_cond(
        add_property(db, "vibration",
            PropertyDescription("Boolean", BooleanFormat(<<"n", "o", "-", "v", "i", "b", "r", "a", "t", "i", "o", "n">>, <<"v", "i", "b", "r", "a", "t", "i", "o", "n">>), FALSE, TRUE)),
        "vibration-strength", config.vibration_strength,
        PropertyDescription("Integer", NoFormat, FALSE, TRUE))

\* VibrationNodePublisher::vibration, vibration_strength
VibrationNodePublisher(self, h, value) ==
    CASE h = "vibration" -> publish_value(self.client, self.node.node_id, "vibration", BoolToString(value), TRUE)
      [] h = "vibration_strength" ->
            publish_value(self.client, self.node.node_id, "vibration-strength", I64ToString(value), TRUE)

----------------------------------------------------------------------------
(* powermeter_node.rs *)

\* FloatRange { min: Some(0.0), max: None, step: None }
PowerRange == FloatRange(Some(0), None, None)

PowermeterNode_build_node(db, config) ==
    add_property_cond(
        add_property_cond(
            add_property_cond(
                add_property_cond(
                    add_property(db, "power", PropertyDescription("Float", PowerRange, FALSE, TRUE)),
                    "current", config.current, PropertyDescription("Float", PowerRange, FALSE, TRUE)),
                "voltage", config.voltage, PropertyDescription("Float", PowerRange, FALSE, TRUE)),
            "frequency", config.frequency, PropertyDescription("Float", PowerRange, FALSE, TRUE)),
        "consumption", config.consumption, PropertyDescription("Float", PowerRange, FALSE, TRUE))

\* PowermeterNodePublisher::power, current, voltage, frequency, consumption:
\* the helper's name is the property id
PowermeterNodePublisher(self, h, value) ==
    publish_value(self.client, self.node.node_id, h, F64ToString(value), TRUE)

----------------------------------------------------------------------------
(* button_node.rs *)

\* impl From<&ButtonNodeActions> for &'static str / Display
ButtonNodeActions_to_string(a) ==
    CASE a = "Press" -> <<"p", "r", "e", "s", "s">>
      [] a = "LongPress" -> <<"l", "o", "n", "g", "-", "p", "r", "e", "s", "s">>
      [] a = "DoublePress" -> <<"d", "o", "u", "b", "l", "e", "-", "p", "r", "e", "s", "s">>
      [] a = "Release" -> <<"r", "e", "l", "e", "a", "s", "e">>
      [] a = "LongRelease" -> <<"l", "o", "n", "g", "-", "r", "e", "l", "e", "a", "s", "e">>
      [] a = "Continuous" -> <<"c", "o", "n", "t", "i", "n", "u", "o", "u", "s">>

ButtonNode_build_node(db, config) ==
    add_property(db, "action",
        PropertyDescription("Enum",
            EnumFormat([i \in 1..Len(config.actions) |-> ButtonNodeActions_to_string(config.actions[i])]),
            FALSE, FALSE))

\* ButtonNodePublisher::action
ButtonNodePublisher(self, h, value) ==
    publish_value(self.client, self.node.node_id, "action", ButtonNodeActions_to_string(value), FALSE)

----------------------------------------------------------------------------
(* orientation_node.rs *)

\* mutant: the tilt property is added under the id of the z axis
OrientationNode_build_node_SameId(db) ==
    add_property(
        add_property(
            add_property(
                add_property(db, "orientation-x", PropertyDescription("Integer", NoFormat, FALSE, TRUE)),
                "orientation-y", PropertyDescription("Integer", NoFormat, FALSE, TRUE)),
            "orientation-z", PropertyDescription("Integer", NoFormat, FALSE, TRUE)),
        "orientation-z", PropertyDescription("Integer", NoFormat, FALSE, TRUE))

OrientationNode_build_node(db) ==
    add_property(
        add_property(
            add_property(
                add_property(db, "orientation-x", PropertyDescription("Integer", NoFormat, FALSE, TRUE)),
                "orientation-y", PropertyDescription("Integer", NoFormat, FALSE, TRUE)),
            "orientation-z", PropertyDescription("Integer", NoFormat, FALSE, TRUE)),
        "tilt", PropertyDescription("Integer", NoFormat, FALSE, TRUE))

\* OrientationNodePublisher::orientation_x, orientation_y, orientation_z, tilt
OrientationNodePublisher(self, h, value) ==
    CASE h = "orientation_x" ->
            publish_value(self.client, self.node.node_id, "orientation-x", I64ToString(value), TRUE)
      [] h = "orientation_y" ->
            publish_value(self.client, self.node.node_id, "orientation-y", I64ToString(value), TRUE)
      [] h = "orientation_z" ->
            publish_value(self.client, self.node.node_id, "orientation-z", I64ToString(value), TRUE)
      [] h = "tilt" -> publish_value(self.client, self.node.node_id, "tilt", I64ToString(value), TRUE)

----------------------------------------------------------------------------
(* numeric_sensor_node.rs *)

NumericSensorType ==
    {"Generic", "Temperature", "Humidity", "Pressure", "Volume", "Volt", "Current", "Power",
     "Energy", "Frequency", "Battery", "Distance", "Speed", "Light", "GasCO", "GasCO2",
     "GasCH4", "GasVoc"}

\* the format of the value property; FloatRange bounds in tenths (-273.15 as -273.1)
NumericSensor_format(sensor_type) ==
    CASE sensor_type = "Temperature" -> FloatRange(Some(0 - 2731), None, None)
      [] sensor_type \in {"Humidity", "Battery"} -> FloatRange(Some(0), Some(1000), None)
      [] OTHER -> NoFormat

NumericSensorNode_build_node(db, sensor_type) ==
    add_property(db, "value",
        PropertyDescription(IF sensor_type = "Generic" THEN "Integer" ELSE "Float",
                            NumericSensor_format(sensor_type), FALSE, TRUE))

\* NumericSensorNodePublisher::value
NumericSensorNodePublisher(self, h, value) ==
    publish_value(self.client, self.node.node_id, "value", F64ToString(value), TRUE)

----------------------------------------------------------------------------
(* tilt_node.rs, water_sensor_node.rs *)

TiltNode_build_node(db) ==
    add_property(db, "state",
        PropertyDescription("Boolean", BooleanFormat(<<"n", "o", "t", " ", "t", "i", "l", "t", "e", "d">>, <<"t", "i", "l", "t", "e", "d">>), FALSE, TRUE))

\* TiltNodePublisher::state
TiltNodePublisher(self, h, value) ==
    publish_value(self.client, self.node.node_id, "state", BoolToString(value), TRUE)

WaterSensorNode_build_node(db) ==
    add_property(db, "detected",
        PropertyDescription("Boolean", BooleanFormat(<<"n", "o", " ", "w", "a", "t", "e", "r">>, <<"w", "a", "t", "e", "r", " ", "d", "e", "t", "e", "c", "t", "e", "d">>), FALSE, TRUE))

\* WaterSensorNodePublisher::detected
WaterSensorNodePublisher(self, h, value) ==
    publish_value(self.client, self.node.node_id, "detected", BoolToString(value), TRUE)

----------------------------------------------------------------------------
(* Dispatch over the node types. *)

\* the kinds whose publisher has match_parse
ParsingKinds == {"switch", "dimmer", "shutter", "colorlight", "thermostat", "lightscene"}

\* the kinds that only publish
SensorKinds ==
    {"contact", "maintenance", "weather", "motion", "vibration", "powermeter", "button",
     "orientation", "numeric", "tilt", "water"}

Kinds == ParsingKinds \cup SensorKinds

\* X_NODE_DEFAULT_ID
DefaultNodeId(kind) ==
    CASE kind = "switch" -> "switch"
      [] kind = "dimmer" -> "dimmer"
      [] kind = "shutter" -> "shutter"
      [] kind = "colorlight" -> "colorlight"
      [] kind = "thermostat" -> "thermostat"
      [] kind = "lightscene" -> "scenes"
      [] OTHER -> kind

\* XNodeBuilder::new(config).build()
build_node(config) ==
    CASE config.kind = "switch" -> SwitchNode_build_node(EmptyNode, config)
      [] config.kind = "dimmer" -> DimmerNode_build_node(EmptyNode, config)
      [] config.kind = "shutter" -> ShutterNode_build_node(EmptyNode, config)
      [] config.kind = "colorlight" -> ColorlightNode_build_node(EmptyNode, config)
      [] config.kind = "thermostat" -> ThermostatNode_build_node(EmptyNode, config)
      [] config.kind = "lightscene" -> LightSceneNode_build_node(EmptyNode, config)
      [] config.kind = "contact" -> ContactNode_build_node(EmptyNode)
      [] config.kind = "maintenance" -> MaintenanceNode_build_node(EmptyNode, config)
      [] config.kind = "weather" -> WeatherNode_build_node(EmptyNode, config)
      [] config.kind = "motion" -> MotionNode_build_node(EmptyNode, config)
      [] config.kind = "vibration" -> VibrationNode_build_node(EmptyNode, config)
      [] config.kind = "powermeter" -> PowermeterNode_build_node(EmptyNode, config)
      [] config.kind = "button" -> ButtonNode_build_node(EmptyNode, config)
      [] config.kind = "orientation" -> OrientationNode_build_node(EmptyNode)
      [] config.kind = "numeric" -> NumericSensorNode_build_node(EmptyNode, config.sensor_type)
      [] config.kind = "tilt" -> TiltNode_build_node(EmptyNode)
      [] config.kind = "water" -> WaterSensorNode_build_node(EmptyNode)

\* XNodePublisher::match_parse
match_parse(self, property, desc, set_value) ==
    CASE self.kind = "switch" -> SwitchNode_match_parse(self, property, desc, set_value)
      [] self.kind = "dimmer" -> DimmerNode_match_parse(self, property, desc, set_value)
      [] self.kind = "shutter" -> ShutterNode_match_parse(self, property, desc, set_value)
      [] self.kind = "colorlight" -> ColorlightNode_match_parse(self, property, desc, set_value)
      [] self.kind = "thermostat" -> ThermostatNode_match_parse(self, property, desc, set_value)
      [] self.kind = "lightscene" -> LightSceneNode_match_parse(self, property, desc, set_value)

\* what XNodePublisher::match_parse writes to standard output
match_parse_stdout(self, property, desc, set_value) ==
    IF self.kind = "lightscene"
    THEN LightSceneNode_match_parse_stdout(self, property, desc, set_value)
    ELSE <<>>

\* the property ids a publisher's match_parse has a branch for
HandledProps(kind) ==
    CASE kind = "switch" -> {"state", "action"}
      [] kind = "dimmer" -> {"brightness", "action"}
      [] kind = "shutter" -> {"position", "action"}
      [] kind = "colorlight" -> {"color", "color-temperature"}
      [] kind = "thermostat" -> {"set-temperature", "mode"}
      [] kind = "lightscene" -> {"recall"}
      [] OTHER -> {}

\* the publish helpers taking a bool, an i64, an f64, an action/mode, a color
BoolHelpers(kind) ==
    CASE kind = "switch" -> {"state", "state_target"}
      [] kind = "thermostat" -> {"windowopen"}
      [] kind = "contact" -> {"state"}
      [] kind = "maintenance" -> {"low_battery", "reachable"}
      [] kind = "motion" -> {"motion"}
      [] kind = "vibration" -> {"vibration"}
      [] kind = "tilt" -> {"state"}
      [] kind = "water" -> {"detected"}
      [] OTHER -> {}

IntHelpers(kind) ==
    CASE kind = "dimmer" -> {"brightness", "brightness_target"}
      [] kind = "shutter" -> {"position", "position_target"}
      [] kind = "colorlight" -> {"color_temperature", "color_temperature_target"}
      [] kind = "thermostat" -> {"boost", "valve"}
      [] kind = "maintenance" -> {"battery_level"}
      [] kind = "weather" -> {"humidity"}
      [] kind = "motion" -> {"lux"}
      [] kind = "vibration" -> {"vibration_strength"}
      [] kind = "orientation" -> {"orientation_x", "orientation_y", "orientation_z", "tilt"}
      [] OTHER -> {}

FloatHelpers(kind) ==
    CASE kind = "thermostat" -> {"set_temperature", "set_temperature_target"}
      [] kind = "weather" -> {"temperature", "pressure"}
      [] kind = "powermeter" -> {"power", "current", "voltage", "frequency", "consumption"}
      [] kind = "numeric" -> {"value"}
      [] OTHER -> {}

EnumHelpers(kind) ==
    CASE kind = "switch" -> {"action"}
      [] kind = "dimmer" -> {"action"}
      [] kind = "shutter" -> {"action"}
      [] kind = "thermostat" -> {"mode", "mode_target"}
      [] kind = "button" -> {"action"}
      [] OTHER -> {}

\* the publish helper taking a DateTime<Utc>
DatetimeHelpers(kind) == IF kind = "maintenance" THEN {"last_update"} ELSE {}

ColorHelpers(kind) == IF kind = "colorlight" THEN {"color", "color_target"} ELSE {}

\* the publish helper h of the publisher's type applied to value: Option<Publish>
publish(self, h, value) ==
    CASE self.kind = "switch" /\ h = "state" -> Some(SwitchNode_state(self, value))
      [] self.kind = "switch" /\ h = "state_target" -> Some(SwitchNode_state_target(self, value))
      [] self.kind = "switch" /\ h = "action" -> Some(SwitchNode_action(self))
      [] self.kind = "dimmer" /\ h = "brightness" -> Some(DimmerNode_brightness(self, value))
      [] self.kind = "dimmer" /\ h = "brightness_target" -> Some(DimmerNode_brightness_target(self, value))
      [] self.kind = "dimmer" /\ h = "action" -> Some(DimmerNode_action(self, value))
      [] self.kind = "shutter" /\ h = "position" -> Some(ShutterNode_position(self, value))
      [] self.kind = "shutter" /\ h = "position_target" -> Some(ShutterNode_position_target(self, value))
      [] self.kind = "shutter" /\ h = "action" -> Some(ShutterNode_action(self, value))
      [] self.kind = "colorlight" /\ h = "color" -> Some(ColorlightNode_color(self, value))
      [] self.kind = "colorlight" /\ h = "color_target" -> Some(ColorlightNode_color_target(self, value))
      [] self.kind = "colorlight" /\ h = "color_temperature" ->
            Some(ColorlightNode_color_temperature(self, value))
      [] self.kind = "colorlight" /\ h = "color_temperature_target" ->
            Some(ColorlightNode_color_temperature_target(self, value))
      [] self.kind = "thermostat" /\ h = "set_temperature" -> Some(ThermostatNode_set_temperature(self, value))
      [] self.kind = "thermostat" /\ h = "set_temperature_target" ->
            Some(ThermostatNode_set_temperature_target(self, value))
      [] self.kind = "thermostat" /\ h = "mode" -> Some(ThermostatNode_mode(self, value))
      [] self.kind = "thermostat" /\ h = "mode_target" -> Some(ThermostatNode_mode_target(self, value))
      [] self.kind = "thermostat" /\ h = "boost" -> Some(ThermostatNode_boost(self, value))
      [] self.kind = "thermostat" /\ h = "valve" -> Some(ThermostatNode_valve(self, value))
      [] self.kind = "thermostat" /\ h = "windowopen" -> Some(ThermostatNode_windowopen(self, value))
      [] self.kind = "lightscene" /\ h = "recall" -> LightSceneNode_recall(self, value)
      [] self.kind = "contact" /\ h = "state" -> Some(ContactNode_state(self, value))
      [] self.kind = "maintenance" -> MaintenanceNodePublisher(self, h, value)
      [] self.kind = "weather" -> Some(WeatherNodePublisher(self, h, value))
      [] self.kind = "motion" -> Some(MotionNodePublisher(self, h, value))
      [] self.kind = "vibration" -> Some(VibrationNodePublisher(self, h, value))
      [] self.kind = "powermeter" -> Some(PowermeterNodePublisher(self, h, value))
      [] self.kind = "button" -> Some(ButtonNodePublisher(self, h, value))
      [] self.kind = "orientation" -> Some(OrientationNodePublisher(self, h, value))
      [] self.kind = "numeric" -> Some(NumericSensorNodePublisher(self, h, value))
      [] self.kind = "tilt" -> Some(TiltNodePublisher(self, h, value))
      [] self.kind = "water" -> Some(WaterSensorNodePublisher(self, h, value))

----------------------------------------------------------------------------
(* Configurations, identities, messages and payloads the model ranges over. *)

\* FloatRange { min: Some(5.0), max: Some(32.0), step: Some(0.5) }, in tenths
DefaultTempRange == FloatRange(Some(50), Some(320), Some(5))

Configs ==
    [kind : {"switch"}, settable : BOOLEAN]
    \cup [kind : {"dimmer"}, settable : BOOLEAN]
    \cup [kind : {"shutter"}, can_stop : BOOLEAN]
    \cup [kind : {"colorlight"}, settable : BOOLEAN,
          color_formats : {<<"rgb">>, <<"rgb", "hsv">>, <<"hsv", "xyz">>},
          ctmin : {153}, ctmax : {555}]
    \cup [kind : {"thermostat"}, valve : BOOLEAN, windowopen : BOOLEAN,
          boost_state : BOOLEAN, mode : BOOLEAN,
          modes : {<<"Auto", "Manual">>}, temp_range : {DefaultTempRange}]
    \cup [kind : {"thermostat"}, valve : {TRUE}, windowopen : {TRUE},
          boost_state : {TRUE}, mode : BOOLEAN,
          modes : {<<>>, <<"Auto", "Manual">>, <<"Off", "Heat", "Boost">>},
          temp_range : {DefaultTempRange, FloatRange(Some(50), Some(320), None)}]
    \cup [kind : {"lightscene"}, settable : BOOLEAN,
          scenes : {<<>>, <<S_evening>>, <<S_evening, S_movie>>}]
    \cup [kind : {"contact", "orientation", "tilt", "water"}]
    \cup [kind : {"maintenance"}, low_battery : BOOLEAN, battery_level : BOOLEAN,
          reachable : BOOLEAN, last_update : BOOLEAN]
    \cup [kind : {"weather"}, temperature : BOOLEAN, humidity : BOOLEAN, pressure : BOOLEAN]
    \cup [kind : {"motion"}, lux : BOOLEAN]
    \cup [kind : {"vibration"}, vibration_strength : BOOLEAN]
    \cup [kind : {"powermeter"}, current : BOOLEAN, voltage : BOOLEAN, frequency : BOOLEAN,
          consumption : BOOLEAN]
    \cup [kind : {"button"}, actions : {<<>>, <<"Press">>, <<"Press", "LongPress", "Release">>}]
    \cup [kind : {"numeric"}, sensor_type : NumericSensorType]

\* the device the publisher is built for: Homie5DeviceProtocol::new(id, domain)
Client == DeviceRef("homie", "dev1")

Domains == {"homie", "other"}
DeviceIds == {"dev1", "dev2"}
NodeIds(kind) == {DefaultNodeId(kind), "switch2"}

AllPropIds ==
    {"state", "action", "brightness", "position", "color", "color-temperature",
     "set-temperature", "mode", "valve", "windowopen", "boost-state", "recall", "unknown"}

PropertyRefs(kind) ==
    {PropertyRef(d, i, n, p) : d \in Domains, i \in DeviceIds, n \in NodeIds(kind), p \in AllPropIds}

\* payloads written out: the tokens of the node types, near misses, numbers, colors
WordPayloads ==
    {<<>>, S_on, S_off, S_true, S_false, S_toggle, S_brighter, S_darker, S_up, S_down,
     S_stop, S_open, S_auto, S_manual, S_heat, S_boost, S_sleep, S_evening, S_movie, S_abc,
     S_100, S_101, S_150, WP_plus5, WP_On, WP_TRUE, WP_20_3, WP_20_5, WP_rgb, WP_hsv, WP_xyz, WP_rgb2}

\* every string over PayloadAlphabet of length 0..MaxLen
EnumeratedPayloads == UNION {[1..n -> PayloadAlphabet] : n \in 0..MaxLen}

ColorValues ==
    {[format |-> "rgb", c |-> <<1, 5, 9>>], [format |-> "rgb", c |-> <<255, 0, 100>>],
     [format |-> "hsv", c |-> <<1, 5, 9>>], [format |-> "xyz", c |-> <<2, 3, 5>>]}

Scenes == {S_evening, S_movie, S_abc}

\* arguments of the i64 helpers: the declared range and one value beyond each end
IntArgs(config, h) ==
    IF config.kind = "colorlight" THEN (config.ctmin - 1)..(config.ctmax + 1) ELSE (0 - 1)..101

\* arguments of the f64 helpers, in tenths: the declared range and one beyond each end
FloatArgs(config) ==
    IF config.kind = "thermostat"
    THEN (Unwrap(config.temp_range.min) - 1)..(Unwrap(config.temp_range.max) + 1)
    ELSE {0 - 5, 0, 124, 640}

EnumArgs(kind) ==
    CASE kind = "switch" -> {"Toggle"}
      [] kind = "dimmer" -> {"Brighter", "Darker"}
      [] kind = "shutter" -> {"Up", "Down", "Stop"}
      [] kind = "thermostat" -> {ThermostatNodeModes[i] : i \in 1..Len(ThermostatNodeModes)}
      [] kind = "button" ->
            {"Press", "LongPress", "DoublePress", "Release", "LongRelease", "Continuous"}
      [] OTHER -> {}

\* arguments of last_update
DatetimeArgs ==
    {[year |-> 2024, month |-> 2, day |-> 29, hour |-> 0, minute |-> 5, second |-> 9, millis |-> 7],
     [year |-> 2025, month |-> 12, day |-> 31, hour |-> 23, minute |-> 59, second |-> 59, millis |-> 999]}

----------------------------------------------------------------------------
(* One node on one device: Spec. *)

VARIABLES
    cfg,        \* the node type config the node was built from
    desc,       \* the device description: node id -> node description
    publisher,  \* the node's publisher
    pc,         \* "idle", "delivered", "parsed", "published"
    call,       \* Some([property, set_value]) of the last match_parse call
    ev,         \* what that call returned
    sent,       \* Some([helper, value]) of the last publish helper call
    out,        \* what that helper returned: Option<Publish>
    ddesc,      \* SpecProbe: the description of a device with several nodes
    pubs,       \* SpecProbe: node id -> the publisher of that node
    msg,        \* SpecProbe: Some([property, set_value]), the PropertySet being probed
    probed,     \* SpecProbe: node id -> Some(result of match_parse_event), None before
    stdout,     \* the lines the last match_parse call printed
    alert,      \* SpecAlerts: Some(variant) handed to as_str
    alert_id,   \* SpecAlerts: Some(string) handed to from_id
    alert_parsed,   \* SpecAlerts: Some(what from_id returned), None before the call
    switch_state,   \* SpecDevice: local state of node switch
    switch_state2,  \* SpecDevice: local state of node switch2
    dimmer_state,   \* SpecDevice: local brightness of node dimmer
    event,      \* SpecDevice: the event the loop handled last
    wire,       \* SpecDevice: what that handler handed to the MQTT client, in order
    last_value, \* SpecDevice: switch node id -> Some(payload of its last published value)
    conv_call,  \* SpecConv: Some(the conversion a caller started and its text)
    frames,     \* SpecConv: the call stack of that conversion, innermost frame last
    conv_result,    \* SpecConv: Some(what the conversion returned to the caller)
    aborted     \* SpecConv: the process died of a stack overflow

nodevars == <<cfg, desc, publisher, pc, call, ev, sent, out, stdout>>
probevars == <<ddesc, pubs, msg, probed>>
alertvars == <<alert, alert_id, alert_parsed>>
devvars == <<switch_state, switch_state2, dimmer_state, event, wire, last_value>>
convvars == <<conv_call, frames, conv_result, aborted>>
vars == <<cfg, desc, publisher, pc, call, ev, sent, out, stdout, ddesc, pubs, msg, probed,
          alert, alert_id, alert_parsed,
          switch_state, switch_state2, dimmer_state, event, wire, last_value,
          conv_call, frames, conv_result, aborted>>

\* no alert id is being converted
NoAlerts ==
    /\ alert = None
    /\ alert_id = None
    /\ alert_parsed = None

\* no string is being converted into a thermostat mode
NoConversion ==
    /\ conv_call = None
    /\ frames = <<>>
    /\ conv_result = None
    /\ aborted = FALSE

\* the device loop is not running
NoLoop ==
    /\ switch_state = FALSE
    /\ switch_state2 = FALSE
    /\ dimmer_state = 0
    /\ event = None
    /\ wire = <<>>
    /\ last_value = <<>>

\* the several-node device is not part of this specification
NoDevice ==
    /\ ddesc = <<>>
    /\ pubs = <<>>
    /\ msg = None
    /\ probed = <<>>

\* builder.build_with_publisher(node_id, &client) and
\* DeviceDescriptionBuilder::new().add_node(node_id, node).build()
Init ==
    /\ cfg \in Configs
    /\ desc = [n \in {DefaultNodeId(cfg.kind)} |-> build_node(cfg)]
    /\ publisher = Publisher(cfg.kind, Client, DefaultNodeId(cfg.kind), cfg)
    /\ pc = "idle"
    /\ call = None
    /\ ev = None
    /\ sent = None
    /\ out = None
    /\ stdout = <<>>
    /\ NoDevice
    /\ NoAlerts
    /\ NoLoop
    /\ NoConversion

\* a PropertySet message reaches the application
Deliver(property, set_value) ==
    /\ call' = Some([property |-> property, set_value |-> set_value])
    /\ pc' = "delivered"
    /\ UNCHANGED <<cfg, desc, publisher, ev, sent, out, stdout, probevars, alertvars, devvars, convvars>>

\* a PropertySet with any target and a written-out payload arrives
ReceiveSet ==
    /\ pc = "idle"
    /\ cfg.kind \in ParsingKinds
    /\ \E property \in PropertyRefs(cfg.kind), set_value \in WordPayloads :
            Deliver(property, set_value)

\* a PropertySet for a property of the own node arrives, with any short payload
\* over the alphabet
ReceiveOwnSet ==
    /\ pc = "idle"
    /\ cfg.kind \in ParsingKinds
    /\ \E p \in HandledProps(cfg.kind), set_value \in EnumeratedPayloads :
            Deliver(PropertyRef(publisher.node.domain, publisher.node.id,
                                publisher.node.node_id, p), set_value)

\* publisher.match_parse_event(&desc, event) on the delivered PropertySet
MatchParseEvent ==
    /\ pc = "delivered"
    /\ ev' = match_parse(publisher, Unwrap(call).property, desc, Unwrap(call).set_value)
    /\ stdout' = match_parse_stdout(publisher, Unwrap(call).property, desc, Unwrap(call).set_value)
    /\ pc' = "parsed"
    /\ UNCHANGED <<cfg, desc, publisher, call, sent, out, probevars, alertvars, devvars, convvars>>

DoPublish(h, value) ==
    /\ sent' = Some([helper |-> h, value |-> value])
    /\ out' = publish(publisher, h, value)
    /\ pc' = "published"
    /\ UNCHANGED <<cfg, desc, publisher, call, ev, stdout, probevars, alertvars, devvars, convvars>>

PublishBool ==
    /\ pc = "idle"
    /\ \E h \in BoolHelpers(cfg.kind), value \in BOOLEAN : DoPublish(h, value)

PublishInt ==
    /\ pc = "idle"
    /\ \E h \in IntHelpers(cfg.kind) : \E value \in IntArgs(cfg, h) : DoPublish(h, value)

PublishFloat ==
    /\ pc = "idle"
    /\ \E h \in FloatHelpers(cfg.kind) : \E value \in FloatArgs(cfg) : DoPublish(h, value)

PublishEnum ==
    /\ pc = "idle"
    /\ \E h \in EnumHelpers(cfg.kind), value \in EnumArgs(cfg.kind) : DoPublish(h, value)

PublishColor ==
    /\ pc = "idle"
    /\ \E h \in ColorHelpers(cfg.kind), value \in ColorValues : DoPublish(h, value)

PublishDatetime ==
    /\ pc = "idle"
    /\ \E h \in DatetimeHelpers(cfg.kind), value \in DatetimeArgs : DoPublish(h, value)

PublishScene ==
    /\ pc = "idle"
    /\ cfg.kind = "lightscene"
    /\ \E value \in Scenes : DoPublish("recall", value)

\* the published message comes back as a PropertySet on the same property
Loopback ==
    /\ pc = "published"
    /\ cfg.kind \in ParsingKinds
    /\ IsSome(out)
    /\ Deliver(PropertyRef(Unwrap(out).topic.domain, Unwrap(out).topic.id,
                           Unwrap(out).topic.node_id, Unwrap(out).topic.prop_id),
               Unwrap(out).payload)

\* the caller is done with the results
Return ==
    /\ pc \in {"parsed", "published"}
    /\ pc' = "idle"
    /\ call' = None
    /\ ev' = None
    /\ sent' = None
    /\ out' = None
    /\ stdout' = <<>>
    /\ UNCHANGED <<cfg, desc, publisher, probevars, alertvars, devvars, convvars>>

Next ==
    \/ ReceiveSet
    \/ ReceiveOwnSet
    \/ MatchParseEvent
    \/ PublishBool
    \/ PublishInt
    \/ PublishFloat
    \/ PublishEnum
    \/ PublishColor
    \/ PublishDatetime
    \/ PublishScene
    \/ Loopback
    \/ Return

Spec == Init /\ [][Next]_vars

----------------------------------------------------------------------------
(* Several nodes on one device, every publisher probed with each incoming  *)
(* PropertySet (the event loop of lib.rs tests::test_device): SpecProbe.   *)

\* the node ids of the device, pairwise distinct
ProbeNodes == {"switch", "switch2", "dimmer", "shutter"}

ProbeKind(n) ==
    CASE n = "switch" -> "switch"
      [] n = "switch2" -> "switch"
      [] n = "dimmer" -> "dimmer"
      [] n = "shutter" -> "shutter"

ProbeConfig(n, settable, can_stop) ==
    IF ProbeKind(n) = "shutter" THEN [kind |-> "shutter", can_stop |-> can_stop]
    ELSE [kind |-> ProbeKind(n), settable |-> settable]

ProbePropertyRefs ==
    {PropertyRef(d, i, n, p) :
        d \in Domains, i \in DeviceIds, n \in ProbeNodes \cup {"weather"},
        p \in {"state", "action", "brightness", "position", "unknown"}}

ProbePayloads ==
    {S_true, S_false, S_on, S_toggle, S_brighter, S_darker, S_up, S_stop, S_100, S_101, S_abc}

\* no node of the single-node specification
NoNode ==
    /\ cfg = <<>>
    /\ desc = <<>>
    /\ publisher = <<>>
    /\ pc = "off"
    /\ call = None
    /\ ev = None
    /\ sent = None
    /\ out = None
    /\ stdout = <<>>

\* the builders' build_with_publisher for every node, then
\* DeviceDescriptionBuilder::new().add_node(..)...build()
ProbeInit ==
    /\ NoNode
    /\ NoAlerts
    /\ NoLoop
    /\ NoConversion
    /\ \E settable \in BOOLEAN, can_stop \in BOOLEAN :
        /\ ddesc = [n \in ProbeNodes |-> build_node(ProbeConfig(n, settable, can_stop))]
        /\ pubs = [n \in ProbeNodes |->
                    Publisher(ProbeKind(n), Client, n, ProbeConfig(n, settable, can_stop))]
    /\ msg = None
    /\ probed = [n \in ProbeNodes |-> None]

\* channel_rx.recv(): the next PropertySet event
Arrive ==
    /\ msg = None
    /\ \E property \in ProbePropertyRefs, set_value \in ProbePayloads :
            msg' = Some([property |-> property, set_value |-> set_value])
    /\ probed' = [n \in ProbeNodes |-> None]
    /\ UNCHANGED <<ddesc, pubs, nodevars, alertvars, devvars, convvars>>

\* publisher.match_parse_event(&desc, event) of one publisher not probed yet
Probe ==
    /\ IsSome(msg)
    /\ \E n \in ProbeNodes :
        /\ probed[n] = None
        /\ probed' = [probed EXCEPT ![n] =
                Some(match_parse(pubs[n], Unwrap(msg).property, ddesc, Unwrap(msg).set_value))]
    /\ UNCHANGED <<ddesc, pubs, msg, nodevars, alertvars, devvars, convvars>>

\* every publisher has seen the event; back to recv()
Finish ==
    /\ IsSome(msg)
    /\ \A n \in ProbeNodes : IsSome(probed[n])
    /\ msg' = None
    /\ probed' = [n \in ProbeNodes |-> None]
    /\ UNCHANGED <<ddesc, pubs, nodevars, alertvars, devvars, convvars>>

ProbeNext == Arrive \/ Probe \/ Finish

SpecProbe == ProbeInit /\ [][ProbeNext]_vars

----------------------------------------------------------------------------
(* alerts.rs *)

SMARTHOME_ALERT_BATTERY_LOW == "hc-battery-low"
SMARTHOME_ALERT_BATTERY_CRITICAL == "hc-battery-critical"
SMARTHOME_ALERT_UNREACHABLE == "hc-unreachable"
SMARTHOME_ALERT_UPDATE_OVERDUE == "hc-update-overdue"
SMARTHOME_ALERT_CONFIG_ERROR == "hc-config-error"
SMARTHOME_ALERT_SENSOR_FAULT == "hc-sensor-fault"
SMARTHOME_ALERT_TAMPER == "hc-tamper"
SMARTHOME_ALERT_COMM_ERROR == "hc-comm-error"

SmarthomeAlert ==
    {"BatteryLow", "BatteryCritical", "Unreachable", "UpdateOverdue",
     "ConfigError", "SensorFault", "Tamper", "CommError"}

\* SmarthomeAlert::as_str
SmarthomeAlert_as_str(self) ==
    CASE self = "BatteryLow" -> SMARTHOME_ALERT_BATTERY_LOW
      [] self = "BatteryCritical" -> SMARTHOME_ALERT_BATTERY_CRITICAL
      [] self = "Unreachable" -> SMARTHOME_ALERT_UNREACHABLE
      [] self = "UpdateOverdue" -> SMARTHOME_ALERT_UPDATE_OVERDUE
      [] self = "ConfigError" -> SMARTHOME_ALERT_CONFIG_ERROR
      [] self = "SensorFault" -> SMARTHOME_ALERT_SENSOR_FAULT
      [] self = "Tamper" -> SMARTHOME_ALERT_TAMPER
      [] self = "CommError" -> SMARTHOME_ALERT_COMM_ERROR

\* a from_id whose first two arms are exchanged
SmarthomeAlert_from_id_Swapped(id) ==
    CASE id = SMARTHOME_ALERT_BATTERY_LOW -> Some("BatteryCritical")
      [] id = SMARTHOME_ALERT_BATTERY_CRITICAL -> Some("BatteryLow")
      [] id = SMARTHOME_ALERT_UNREACHABLE -> Some("Unreachable")
      [] id = SMARTHOME_ALERT_UPDATE_OVERDUE -> Some("UpdateOverdue")
      [] id = SMARTHOME_ALERT_CONFIG_ERROR -> Some("ConfigError")
      [] id = SMARTHOME_ALERT_SENSOR_FAULT -> Some("SensorFault")
      [] id = SMARTHOME_ALERT_TAMPER -> Some("Tamper")
      [] id = SMARTHOME_ALERT_COMM_ERROR -> Some("CommError")
      [] OTHER -> None

\* SmarthomeAlert::from_id: a match on the whole string
SmarthomeAlert_from_id(id) ==
    CASE id = SMARTHOME_ALERT_BATTERY_LOW -> Some("BatteryLow")
      [] id = SMARTHOME_ALERT_BATTERY_CRITICAL -> Some("BatteryCritical")
      [] id = SMARTHOME_ALERT_UNREACHABLE -> Some("Unreachable")
      [] id = SMARTHOME_ALERT_UPDATE_OVERDUE -> Some("UpdateOverdue")
      [] id = SMARTHOME_ALERT_CONFIG_ERROR -> Some("ConfigError")
      [] id = SMARTHOME_ALERT_SENSOR_FAULT -> Some("SensorFault")
      [] id = SMARTHOME_ALERT_TAMPER -> Some("Tamper")
      [] id = SMARTHOME_ALERT_COMM_ERROR -> Some("CommError")
      [] OTHER -> None

----------------------------------------------------------------------------
(* The alert id conversions, applied to variants and to arbitrary strings. *)

AlertPrefixes == {"hc-", "", "HC-", "hc", "hc--", " hc-", "homie-"}
AlertNames ==
    {"battery-low", "battery-critical", "unreachable", "update-overdue", "config-error",
     "sensor-fault", "tamper", "comm-error", "custom-alert", "Battery-Low", "battery_low", ""}
AlertSuffixes == {"", "-", "s", " "}

\* the strings from_id is called with: the known names and near misses of them
AlertIds == {p \o n \o x : p \in AlertPrefixes, n \in AlertNames, x \in AlertSuffixes}

AlertsInit ==
    /\ NoNode
    /\ NoDevice
    /\ NoLoop
    /\ NoConversion
    /\ NoAlerts

\* let id = alert.as_str()
AlertAsStr ==
    /\ alert = None
    /\ alert_id = None
    /\ \E a \in SmarthomeAlert :
            /\ alert' = Some(a)
            /\ alert_id' = Some(SmarthomeAlert_as_str(a))
    /\ UNCHANGED <<alert_parsed, nodevars, probevars, devvars, convvars>>

\* an alert id string arrives from outside
AlertReceiveId ==
    /\ alert = None
    /\ alert_id = None
    /\ \E id \in AlertIds : alert_id' = Some(id)
    /\ UNCHANGED <<alert, alert_parsed, nodevars, probevars, devvars, convvars>>

\* SmarthomeAlert::from_id(id)
AlertFromId ==
    /\ IsSome(alert_id)
    /\ alert_parsed = None
    /\ alert_parsed' = Some(SmarthomeAlert_from_id(Unwrap(alert_id)))
    /\ UNCHANGED <<alert, alert_id, nodevars, probevars, devvars, convvars>>

\* the caller is done with the result
AlertDone ==
    /\ IsSome(alert_parsed)
    /\ alert' = None
    /\ alert_id' = None
    /\ alert_parsed' = None
    /\ UNCHANGED <<nodevars, probevars, devvars, convvars>>

AlertsNext == AlertAsStr \/ AlertReceiveId \/ AlertFromId \/ AlertDone

SpecAlerts == AlertsInit /\ [][AlertsNext]_vars

----------------------------------------------------------------------------
(* lib.rs, tests::test_device: the reference device loop. *)

DeviceClient == DeviceRef("homie", "test-hc-smarthome-1")

\* the nodes of the device, in add_node order
DeviceNodes == <<"maintenance", "switch", "dimmer", "weather", "switch2">>

DeviceNodeIds == {DeviceNodes[i] : i \in 1..Len(DeviceNodes)}

\* <Node>Builder::new(Default::default()) of each node
DeviceConfig(n) ==
    CASE n = "maintenance" -> [kind |-> "maintenance", low_battery |-> TRUE, battery_level |-> FALSE,
                               last_update |-> TRUE, reachable |-> TRUE]
      [] n = "switch" -> [kind |-> "switch", settable |-> TRUE]
      [] n = "switch2" -> [kind |-> "switch", settable |-> TRUE]
      [] n = "dimmer" -> [kind |-> "dimmer", settable |-> TRUE]
      [] n = "weather" -> [kind |-> "weather", temperature |-> TRUE, humidity |-> TRUE, pressure |-> FALSE]

\* what the loop hands to the MQTT client: a publish or a subscribe
WirePublish(p) == [op |-> "publish", topic |-> p.topic, payload |-> p.payload, retain |-> p.retain]

S_init == <<"i", "n", "i", "t">>
S_ready == <<"r", "e", "a", "d", "y">>

\* Homie5DeviceProtocol::publish_state_for_id (homie5 crate): <domain>/5/<id>/$state
publish_state_for_id(client, state) ==
    [topic |-> [domain |-> client.domain, id |-> client.id, node_id |-> "", prop_id |-> "",
                attr |-> "$state"],
     payload |-> state, retain |-> TRUE]

\* Homie5DeviceProtocol::publish_description_for_id (homie5 crate); of the
\* serialized document only the node ids are kept
publish_description_for_id(client, d) ==
    [topic |-> [domain |-> client.domain, id |-> client.id, node_id |-> "", prop_id |-> "",
                attr |-> "$description"],
     payload |-> DeviceNodes, retain |-> TRUE]

\* subscribe(client.subscribe_props_for_id(..)): the subscriptions to the set
\* topics of the settable properties, handed over in one step
subscribe_props_for_id(client, d) ==
    [op |-> "subscribe",
     topic |-> [domain |-> client.domain, id |-> client.id, node_id |-> "+", prop_id |-> "+",
                attr |-> "set"],
     payload |-> <<>>, retain |-> FALSE]

\* a switch arm in which Toggle leaves the state as it is
switch_state_after_NoToggle(state, e) ==
    IF e = None THEN state
    ELSE IF Unwrap(e).tag = "State" THEN Unwrap(e).v
    ELSE state

\* switch_state after the `if let Some(switch_node_event)` arm
switch_state_after(state, e) ==
    IF e = None THEN state
    ELSE IF Unwrap(e).tag = "State" THEN Unwrap(e).v
    ELSE ~state

\* the publishes of that arm: state_target, then state
switch_publishes(self, state, e) ==
    IF e = None THEN <<>>
    ELSE <<WirePublish(SwitchNode_state_target(self, switch_state_after(state, e))),
           WirePublish(SwitchNode_state(self, switch_state_after(state, e)))>>

Min(a, b) == IF a < b THEN a ELSE b
Max(a, b) == IF a > b THEN a ELSE b

\* a dimmer arm in which Brighter adds without the upper clamp
dimmer_state_after_NoClamp(state, e) ==
    IF e = None THEN state
    ELSE IF Unwrap(e).tag = "Brightness" THEN Unwrap(e).v
    ELSE IF Unwrap(e).v = "Brighter" THEN state + 10
    ELSE Max(state - 10, 1)

\* dimmer_state after the `if let Some(dimmer_node_event)` arm
dimmer_state_after(state, e) ==
    IF e = None THEN state
    ELSE IF Unwrap(e).tag = "Brightness" THEN Unwrap(e).v
    ELSE IF Unwrap(e).v = "Brighter" THEN Min(state + 10, 100)
    ELSE Max(state - 10, 1)

\* the publishes of that arm: brightness_target, then brightness
dimmer_publishes(self, state, e) ==
    IF e = None THEN <<>>
    ELSE <<WirePublish(DimmerNode_brightness_target(self, dimmer_state_after(state, e))),
           WirePublish(DimmerNode_brightness(self, dimmer_state_after(state, e)))>>

\* a ConnAck arm that announces Ready before the values
on_connack_ReadyFirst(client, d, p, sw, sw2, dim, now) ==
    <<WirePublish(publish_state_for_id(client, S_init)),
      WirePublish(publish_description_for_id(client, d)),
      subscribe_props_for_id(client, d),
      WirePublish(publish_state_for_id(client, S_ready)),
      WirePublish(Unwrap(MaintenanceNodePublisher(p["maintenance"], "low_battery", FALSE))),
      WirePublish(Unwrap(MaintenanceNodePublisher(p["maintenance"], "last_update", now))),
      WirePublish(Unwrap(MaintenanceNodePublisher(p["maintenance"], "reachable", TRUE))),
      WirePublish(SwitchNode_state_target(p["switch"], sw)),
      WirePublish(SwitchNode_state(p["switch"], sw)),
      WirePublish(SwitchNode_state_target(p["switch2"], sw2)),
      WirePublish(SwitchNode_state(p["switch2"], sw2)),
      WirePublish(DimmerNode_brightness(p["dimmer"], dim)),
      WirePublish(WeatherNodePublisher(p["weather"], "temperature", 124)),
      WirePublish(WeatherNodePublisher(p["weather"], "humidity", 64))>>

\* the ConnAck arm: everything it hands to the client, in order
on_connack(client, d, p, sw, sw2, dim, now) ==
    <<WirePublish(publish_state_for_id(client, S_init)),
      WirePublish(publish_description_for_id(client, d)),
      subscribe_props_for_id(client, d),
      WirePublish(Unwrap(MaintenanceNodePublisher(p["maintenance"], "low_battery", FALSE))),
      WirePublish(Unwrap(MaintenanceNodePublisher(p["maintenance"], "last_update", now))),
      WirePublish(Unwrap(MaintenanceNodePublisher(p["maintenance"], "reachable", TRUE))),
      WirePublish(SwitchNode_state_target(p["switch"], sw)),
      WirePublish(SwitchNode_state(p["switch"], sw)),
      WirePublish(SwitchNode_state_target(p["switch2"], sw2)),
      WirePublish(SwitchNode_state(p["switch2"], sw2)),
      WirePublish(DimmerNode_brightness(p["dimmer"], dim)),
      WirePublish(WeatherNodePublisher(p["weather"], "temperature", 124)),
      WirePublish(WeatherNodePublisher(p["weather"], "humidity", 64)),
      WirePublish(publish_state_for_id(client, S_ready))>>

----------------------------------------------------------------------------
(* The device loop: SpecDevice. *)

\* the targets of the set commands that arrive: every pairing of the device's
\* settable nodes with their property ids, and a switch of another device
DevicePropertyRefs ==
    {PropertyRef("homie", "test-hc-smarthome-1", n, p) :
        n \in {"switch", "switch2", "dimmer"}, p \in {"state", "action", "brightness"}}
    \cup {PropertyRef("homie", "dev2", "switch", "state")}

DevicePayloads == {S_true, S_false, S_toggle, S_brighter, S_darker, S_abc, S_100, S_101}

NoProperty == PropertyRef("", "", "", "")

\* the positions in w of the value publishes of a node's state property
StateValueAt(w, n) ==
    {i \in 1..Len(w) :
        /\ w[i].op = "publish"
        /\ w[i].topic.node_id = n
        /\ w[i].topic.prop_id = "state"
        /\ w[i].topic.attr = "value"}

Last(S) == CHOOSE i \in S : \A j \in S : j <= i

\* the payload of the last state value handed over so far, per switch node
last_value_after(last, w) ==
    [n \in {"switch", "switch2"} |->
        IF StateValueAt(w, n) = {} THEN last[n] ELSE Some(w[Last(StateValueAt(w, n))].payload)]

DeviceInit ==
    /\ NoNode
    /\ NoAlerts
    /\ NoConversion
    /\ ddesc = [n \in DeviceNodeIds |-> build_node(DeviceConfig(n))]
    /\ pubs = [n \in DeviceNodeIds |->
                Publisher(DeviceConfig(n).kind, DeviceClient, n, DeviceConfig(n))]
    /\ msg = None
    /\ probed = <<>>
    /\ switch_state = FALSE
    /\ switch_state2 = FALSE
    /\ dimmer_state = 0
    /\ event = None
    /\ wire = <<>>
    /\ last_value = [n \in {"switch", "switch2"} |-> None]

\* the three `if let Some(..) = publisher.match_parse_event(&desc, event)` arms,
\* e1, e2, e3 being what the three publishers parsed
HandlePropertySet(e1, e2, e3) ==
    /\ switch_state' = switch_state_after(switch_state, e1)
    /\ switch_state2' = switch_state_after(switch_state2, e2)
    /\ dimmer_state' = dimmer_state_after(dimmer_state, e3)
    /\ wire' = switch_publishes(pubs["switch"], switch_state, e1)
               \o switch_publishes(pubs["switch2"], switch_state2, e2)
               \o dimmer_publishes(pubs["dimmer"], dimmer_state, e3)

\* ClientEvent::Homie(Homie5Message::PropertySet { .. })
OnPropertySet ==
    /\ \E property \in DevicePropertyRefs, set_value \in DevicePayloads :
        /\ event' = Some([type |-> "PropertySet", property |-> property, set_value |-> set_value])
        /\ HandlePropertySet(match_parse(pubs["switch"], property, ddesc, set_value),
                             match_parse(pubs["switch2"], property, ddesc, set_value),
                             match_parse(pubs["dimmer"], property, ddesc, set_value))
    /\ last_value' = last_value_after(last_value, wire')
    /\ UNCHANGED <<ddesc, pubs, msg, probed, nodevars, alertvars, convvars>>

\* ClientEvent::Mqtt(Incoming(ConnAck)), at any time of day
OnConnAck ==
    /\ event' = Some([type |-> "ConnAck", property |-> NoProperty, set_value |-> <<>>])
    /\ \E now \in DatetimeArgs :
        wire' = on_connack(DeviceClient, ddesc, pubs, switch_state, switch_state2, dimmer_state, now)
    /\ last_value' = last_value_after(last_value, wire')
    /\ UNCHANGED <<switch_state, switch_state2, dimmer_state,
                   ddesc, pubs, msg, probed, nodevars, alertvars, convvars>>

\* any other Homie message or MQTT packet: nothing is handed to the client
OnOtherEvent ==
    /\ event' = Some([type |-> "Other", property |-> NoProperty, set_value |-> <<>>])
    /\ wire' = <<>>
    /\ UNCHANGED <<switch_state, switch_state2, dimmer_state, last_value,
                   ddesc, pubs, msg, probed, nodevars, alertvars, convvars>>

DeviceNext == OnPropertySet \/ OnConnAck \/ OnOtherEvent

SpecDevice == DeviceInit /\ [][DeviceNext]_vars

----------------------------------------------------------------------------
(* match_parse handed a description other than the one the publisher's own  *)
(* builder produced: its enum property lists further tokens.                *)

\* the enum property match_parse converts into the node type's own enum
EnumPropOf(kind) == IF kind = "thermostat" THEN "mode" ELSE "action"

\* the node with further tokens appended to the enum format of a property
with_enum_tokens(node, prop_id, tokens) ==
    [i \in 1..Len(node) |->
        IF node[i].id = prop_id
        THEN [node[i] EXCEPT !.desc.format = EnumFormat(node[i].desc.format.values \o tokens)]
        ELSE node[i]]

\* the configs of the node types that convert an enum payload, the enum
\* property being part of the node
EnumConfigs ==
    {c \in Configs :
        /\ c.kind \in {"switch", "dimmer", "shutter", "thermostat"}
        /\ IsSome(get_property(build_node(c), EnumPropOf(c.kind)))}

\* tokens a caller's description lists beyond those of the builder
FurtherTokens == {<<S_abc>>, <<S_stop, S_evening>>, <<S_toggle, S_sleep, S_on>>}

OtherDescInit ==
    /\ cfg \in EnumConfigs
    /\ \E tokens \in FurtherTokens :
        desc = [n \in {DefaultNodeId(cfg.kind)} |->
                    with_enum_tokens(build_node(cfg), EnumPropOf(cfg.kind), tokens)]
    /\ publisher = Publisher(cfg.kind, Client, DefaultNodeId(cfg.kind), cfg)
    /\ pc = "idle"
    /\ call = None
    /\ ev = None
    /\ sent = None
    /\ out = None
    /\ stdout = <<>>
    /\ NoDevice
    /\ NoAlerts
    /\ NoLoop
    /\ NoConversion

OtherDescNext == ReceiveSet \/ MatchParseEvent \/ Return

SpecOtherDesc == OtherDescInit /\ [][OtherDescNext]_vars

----------------------------------------------------------------------------
(* thermostat_node.rs: the two conversions of a string into a mode, run      *)
(* frame by frame.                                                          *)

\* the frames the stack holds before the process dies of a stack overflow
StackLimit == 5

\* the texts handed to the conversions: the twelve tokens and other strings
ModeTexts ==
    {ThermostatNodeModes_as_str(ThermostatNodeModes[i]) : i \in 1..Len(ThermostatNodeModes)}
    \cup {<<>>, S_abc, S_on, S_toggle, S_evening, WP_On, <<"A", "u", "t", "o">>, <<"a", "u", "t", "o", " ">>}

Top(stack) == stack[Len(stack)]
Pop(stack) == SubSeq(stack, 1, Len(stack) - 1)

ConvInit ==
    /\ NoNode
    /\ NoDevice
    /\ NoAlerts
    /\ NoLoop
    /\ NoConversion

\* a caller runs ThermostatNodeModes::try_from(text) with a String or a &str
ConvCall ==
    /\ conv_call = None
    /\ ~aborted
    /\ \E text \in ModeTexts, from \in {"String", "&str"} :
        /\ conv_call' = Some([from |-> from, text |-> text])
        /\ frames' = <<IF from = "String" THEN "TryFrom<String>::try_from" ELSE "TryFrom<&str>::try_from">>
    /\ UNCHANGED <<conv_result, aborted, nodevars, probevars, alertvars, devvars>>

\* a frame calls f: a new frame on the stack, or the caller's frame reused
\* where the build turns the call in tail position into a jump
Calls(f) ==
    \/ /\ Len(frames) < StackLimit
       /\ frames' = Append(frames, f)
       /\ UNCHANGED aborted
    \/ /\ frames' = Append(Pop(frames), f)
       /\ UNCHANGED aborted
    \/ /\ Len(frames) = StackLimit
       /\ frames' = frames
       /\ aborted' = TRUE

\* TryFrom<String>::try_from: value.try_into(), value being the String
TryFromString ==
    /\ ~aborted
    /\ frames # <<>>
    /\ Top(frames) = "TryFrom<String>::try_from"
    /\ Calls("TryInto<ThermostatNodeModes>::try_into")
    /\ UNCHANGED <<conv_call, conv_result, nodevars, probevars, alertvars, devvars>>

\* impl<T, U: TryFrom<T>> TryInto<U> for T (core): U::try_from(self), with
\* T = String
TryInto ==
    /\ ~aborted
    /\ frames # <<>>
    /\ Top(frames) = "TryInto<ThermostatNodeModes>::try_into"
    /\ Calls("TryFrom<String>::try_from")
    /\ UNCHANGED <<conv_call, conv_result, nodevars, probevars, alertvars, devvars>>

\* TryFrom<&str>::try_from: the match over the twelve tokens returns
TryFromStr ==
    /\ ~aborted
    /\ frames # <<>>
    /\ Top(frames) = "TryFrom<&str>::try_from"
    /\ frames' = Pop(frames)
    /\ conv_result' = Some(ThermostatNodeModes_try_from(Unwrap(conv_call).text))
    /\ UNCHANGED <<conv_call, aborted, nodevars, probevars, alertvars, devvars>>

\* the caller is done with the result
ConvReturn ==
    /\ IsSome(conv_result)
    /\ conv_call' = None
    /\ conv_result' = None
    /\ UNCHANGED <<frames, aborted, nodevars, probevars, alertvars, devvars>>

ConvNext == ConvCall \/ TryFromString \/ TryInto \/ TryFromStr \/ ConvReturn

\* a thread that can take a step takes it
SpecConv == ConvInit /\ [][ConvNext]_vars /\ WF_vars(ConvNext)

----------------------------------------------------------------------------
(* Vocabulary of the properties checked under Spec. *)

\* match_parse has returned for the delivered PropertySet
Parsed == pc = "parsed"

Target == Unwrap(call).property
Payload == Unwrap(call).set_value

\* the PropertySet targets the publisher's own node (domain, device id, node id)
SameIdentity ==
    /\ Target.domain = publisher.node.domain
    /\ Target.id = publisher.node.id
    /\ Target.node_id = publisher.node.node_id

\* ... and a property its match_parse has a branch for
OwnHandled == SameIdentity /\ Target.prop_id \in HandledProps(cfg.kind)

\* the built node description the target addresses
TargetNode == desc[Target.node_id]

\* the target property is in the built node description
Declared == \E i \in 1..Len(TargetNode) : TargetNode[i].id = Target.prop_id

DeclaredDesc == TargetNode[CHOOSE i \in 1..Len(TargetNode) : TargetNode[i].id = Target.prop_id].desc

\* the event variant match_parse returns for a property of a node type
EventTag(kind, prop_id) ==
    CASE kind = "switch" /\ prop_id = "state" -> "State"
      [] kind = "dimmer" /\ prop_id = "brightness" -> "Brightness"
      [] kind = "shutter" /\ prop_id = "position" -> "Position"
      [] kind = "colorlight" /\ prop_id = "color" -> "Color"
      [] kind = "colorlight" /\ prop_id = "color-temperature" -> "ColorTemperature"
      [] kind = "thermostat" /\ prop_id = "set-temperature" -> "SetTemperature"
      [] kind = "thermostat" /\ prop_id = "mode" -> "Mode"
      [] kind = "lightscene" /\ prop_id = "recall" -> "Recall"
      [] OTHER -> "Action"

\* ev is Some(event) of the given variant and value
Returned(tag, v) == IsSome(ev) /\ Unwrap(ev).tag = tag /\ Unwrap(ev).v = v

\* v lies within [min, max] of a range format (a missing side is open)
InRange(v, range) ==
    /\ (IsSome(range.min) => Unwrap(range.min) <= v)
    /\ (IsSome(range.max) => v <= Unwrap(range.max))

\* g is a point of the step grid of the range (anchored at min), or any value
\* when the range declares no step
OnGrid(g, range) ==
    IsSome(range.step) => (g - Unwrap(range.min)) % Unwrap(range.step) = 0

\* g is the nearest grid point of v, a tie going away from the anchor
NearestGrid(g, v, range) ==
    /\ OnGrid(g, range)
    /\ IF IsSome(range.step)
       THEN \/ 2 * Abs(v - g) < Unwrap(range.step)
            \/ /\ 2 * Abs(v - g) = Unwrap(range.step)
               /\ (v >= Unwrap(range.min) => g > v)
               /\ (v < Unwrap(range.min) => g < v)
       ELSE g = v

\* the values in which the nearest grid point of v can lie
Around(v, range) ==
    IF IsSome(range.step) THEN (v - Unwrap(range.step))..(v + Unwrap(range.step)) ELSE {v}

----------------------------------------------------------------------------
(* C1: for every node publisher, match_parse on a PropertySet whose target   *)
(* node identity (domain, device id, node id) differs from the publisher's  *)
(* own returns None, for every property id and every payload.               *)
C1_OtherIdentityNone == (Parsed /\ ~SameIdentity) => ev = None

\* a valid state command for the same node id on another device is rejected
C1_Witness ==
    /\ Parsed
    /\ cfg.kind = "switch"
    /\ Target = PropertyRef("homie", "dev2", "switch", "state")
    /\ Payload = S_true
    /\ ev = None

(* C2: publishers with pairwise distinct node ids on one device, probed with *)
(* the same PropertySet in any order: at most one returns Some event.       *)
C2_AtMostOneMatch ==
    Cardinality({n \in DOMAIN probed : IsSome(probed[n]) /\ IsSome(Unwrap(probed[n]))}) <= 1

\* all four publishers were probed with a toggle for switch2: only switch2 matched
C2_Witness ==
    /\ IsSome(msg)
    /\ Unwrap(msg).property = PropertyRef("homie", "dev1", "switch2", "action")
    /\ \A n \in ProbeNodes : IsSome(probed[n])
    /\ IsSome(Unwrap(probed["switch2"]))
    /\ \A n \in ProbeNodes \ {"switch2"} : Unwrap(probed[n]) = None

\* the payload does not decode under the declared format, the range taken as
\* the closed interval [min, max]
InvalidPayload(payload, pd) ==
    CASE pd.datatype = "Integer" ->
            ParseI64(payload) = None \/ ~InRange(Unwrap(ParseI64(payload)), pd.format)
      [] pd.datatype = "Float" ->
            ParseF64(payload) = None \/ ~InRange(Unwrap(ParseF64(payload)), pd.format)
      [] pd.datatype = "Boolean" -> payload \notin {S_true, S_false}
      [] pd.datatype = "Enum" -> ~Contains(pd.format.values, payload)
      [] pd.datatype = "Color" ->
            ParseColor(payload) = None \/ ~Contains(pd.format.formats, Unwrap(ParseColor(payload)).format)

\* the same, a number counting as in range when its nearest step-grid point is
InvalidAfterRounding(payload, pd) ==
    CASE pd.datatype = "Integer" ->
            \/ ParseI64(payload) = None
            \/ ~\E g \in Around(Unwrap(ParseI64(payload)), pd.format) :
                    NearestGrid(g, Unwrap(ParseI64(payload)), pd.format) /\ InRange(g, pd.format)
      [] pd.datatype = "Float" ->
            \/ ParseF64(payload) = None
            \/ ~\E g \in Around(Unwrap(ParseF64(payload)), pd.format) :
                    NearestGrid(g, Unwrap(ParseF64(payload)), pd.format) /\ InRange(g, pd.format)
      [] OTHER -> InvalidPayload(payload, pd)

C5_AbsentPropertyNone == (Parsed /\ OwnHandled /\ ~Declared) => ev = None

\* 'auto' on the mode property of a thermostat built with mode = false
C5_Witness ==
    /\ Parsed
    /\ cfg.kind = "thermostat"
    /\ ~cfg.mode
    /\ Target = PropertyRef("homie", "dev1", "thermostat", "mode")
    /\ Payload = S_auto
    /\ ev = None

\* a PropertySet on the state property of the own switch node, whose boolean
\* format is false = 'off', true = 'on'
OnSwitchState ==
    /\ Parsed
    /\ cfg.kind = "switch"
    /\ SameIdentity
    /\ Target.prop_id = "state"
    /\ DeclaredDesc.format = BooleanFormat(S_off, S_on)

BoolPublished ==
    /\ pc = "published"
    /\ IsSome(sent)
    /\ Unwrap(sent).helper \in BoolHelpers(cfg.kind)
    /\ IsSome(out)

\* the boolean format declared for the property the message is published on
PublishedFormat ==
    Unwrap(get_property(desc[Unwrap(out).topic.node_id], Unwrap(out).topic.prop_id)).format

\* the property the message is published on is in the built description, with
\* a boolean format configuring words
PublishedDeclared ==
    /\ IsSome(get_property(desc[Unwrap(out).topic.node_id], Unwrap(out).topic.prop_id))
    /\ PublishedFormat.kind = "Boolean"

RoundTripped == Parsed /\ IsSome(sent)

\* the value handed to the helper lies in the domain the property declares
InDomain(v, pd) ==
    CASE pd.datatype \in {"Integer", "Float"} -> InRange(v, pd.format)
      [] pd.datatype = "Boolean" -> TRUE
      [] pd.datatype = "Enum" /\ cfg.kind = "lightscene" -> Contains(pd.format.values, v)
      [] pd.datatype = "Enum" /\ cfg.kind = "switch" -> Contains(pd.format.values, S_toggle)
      [] pd.datatype = "Enum" /\ cfg.kind = "dimmer" ->
            Contains(pd.format.values, IF v = "Brighter" THEN S_brighter ELSE S_darker)
      [] pd.datatype = "Enum" /\ cfg.kind = "shutter" ->
            Contains(pd.format.values,
                     IF v = "Up" THEN S_up ELSE IF v = "Down" THEN S_down ELSE S_stop)
      [] pd.datatype = "Enum" /\ cfg.kind = "thermostat" -> Contains(cfg.modes, v)
      [] pd.datatype = "Color" -> Contains(pd.format.formats, v.format)

\* a round trip through a settable property the node declares and handles
SettableRoundTrip ==
    /\ RoundTripped
    /\ OwnHandled
    /\ Declared
    /\ DeclaredDesc.settable

OnPercentProperty ==
    /\ Parsed
    /\ SameIdentity
    /\ \/ cfg.kind = "dimmer" /\ Target.prop_id = "brightness"
       \/ cfg.kind = "shutter" /\ Target.prop_id = "position"

(* C9: for an integer property declared with range min 0, max 100 (dimmer    *)
(* brightness, shutter position) match_parse returns the integer event      *)
(* exactly for payloads that parse as an integer v with 0 <= v <= 100:      *)
(* '100' gives 100; '101', '150' and 'abc' give None.                       *)
C9_PercentRange ==
    OnPercentProperty =>
        /\ \A v \in 0..100 :
                ParseI64(Payload) = Some(v) => Returned(EventTag(cfg.kind, Target.prop_id), v)
        /\ (\A v \in 0..100 : ParseI64(Payload) # Some(v)) => ev = None
        /\ Payload = S_100 => Returned(EventTag(cfg.kind, Target.prop_id), 100)
        /\ Payload \in {S_101, S_150, S_abc} => ev = None

C9_Witness ==
    /\ OnPercentProperty
    /\ cfg.kind = "dimmer"
    /\ Payload = S_100
    /\ Returned("Brightness", 100)

\* the enum tokens the built shutter description declares for 'action'
ShutterTokens == Unwrap(get_property(desc["shutter"], "action")).format.values

(* C10: a shutter schema built with can_stop=false has the action enum token *)
(* list exactly ['up','down'] (with can_stop=true ['up','down','stop']);    *)
(* against the can_stop=false schema payload 'stop' on the action property  *)
(* yields None, 'up' and 'down' yield Action(Up) and Action(Down).          *)
C10_ShutterActions ==
    cfg.kind = "shutter" =>
        /\ ShutterTokens = IF cfg.can_stop THEN <<S_up, S_down, S_stop>> ELSE <<S_up, S_down>>
        /\ (Parsed /\ ~cfg.can_stop /\ SameIdentity /\ Target.prop_id = "action") =>
            /\ Payload = S_stop => ev = None
            /\ Payload = S_up => Returned("Action", "Up")
            /\ Payload = S_down => Returned("Action", "Down")

C10_Witness ==
    /\ Parsed
    /\ cfg.kind = "shutter"
    /\ ~cfg.can_stop
    /\ SameIdentity
    /\ Target.prop_id = "action"
    /\ Payload = S_stop
    /\ ev = None

----------------------------------------------------------------------------
(* Vocabulary of the properties about built node descriptions. *)

\* the node description built from cfg
BuiltNode == desc[DefaultNodeId(cfg.kind)]

\* how many properties of the node carry the id
Occurrences(node, id) == Cardinality({i \in 1..Len(node) : node[i].id = id})

\* the config-gated properties of a node type: <<property id, value of its gate>>
Gates(config) ==
    CASE config.kind = "maintenance" ->
            {<<"low-battery", config.low_battery>>, <<"battery-level", config.battery_level>>,
             <<"last-update", config.last_update>>, <<"reachable", config.reachable>>}
      [] config.kind = "weather" ->
            {<<"temperature", config.temperature>>, <<"humidity", config.humidity>>,
             <<"pressure", config.pressure>>}
      [] config.kind = "motion" -> {<<"lux", config.lux>>}
      [] config.kind = "vibration" -> {<<"vibration-strength", config.vibration_strength>>}
      [] config.kind = "thermostat" ->
            {<<"valve", config.valve>>, <<"windowopen", config.windowopen>>,
             <<"boost-state", config.boost_state>>, <<"mode", config.mode>>}
      [] config.kind = "powermeter" ->
            {<<"current", config.current>>, <<"voltage", config.voltage>>,
             <<"frequency", config.frequency>>, <<"consumption", config.consumption>>}
      [] OTHER -> {}

\* the properties a node type has under every config
AlwaysProps(kind) ==
    CASE kind \in {"switch", "contact", "tilt"} -> {"state"} \cup (IF kind = "switch" THEN {"action"} ELSE {})
      [] kind = "dimmer" -> {"brightness", "action"}
      [] kind = "shutter" -> {"position", "action"}
      [] kind = "colorlight" -> {"color", "color-temperature"}
      [] kind = "thermostat" -> {"set-temperature"}
      [] kind = "lightscene" -> {"recall"}
      [] kind = "motion" -> {"motion"}
      [] kind = "vibration" -> {"vibration"}
      [] kind = "powermeter" -> {"power"}
      [] kind = "button" -> {"action"}
      [] kind = "orientation" -> {"orientation-x", "orientation-y", "orientation-z", "tilt"}
      [] kind = "numeric" -> {"value"}
      [] kind = "water" -> {"detected"}
      [] OTHER -> {}

GatedKinds == {"maintenance", "weather", "motion", "vibration", "thermostat", "powermeter"}

(* C11: for every node type with config-gated properties (maintenance,       *)
(* weather, motion, vibration, thermostat, powermeter) and every config, the *)
(* built schema contains a gated property id exactly once when its gate is  *)
(* true and not at all when it is false; every unconditional property is    *)
(* always present.                                                          *)
C11_GatedProperties ==
    cfg.kind \in GatedKinds =>
        /\ \A g \in Gates(cfg) : Occurrences(BuiltNode, g[1]) = IF g[2] THEN 1 ELSE 0
        /\ \A id \in AlwaysProps(cfg.kind) : Occurrences(BuiltNode, id) = 1

\* a maintenance node built with low_battery on and battery_level off
C11_Witness ==
    /\ cfg.kind = "maintenance"
    /\ cfg.low_battery
    /\ ~cfg.battery_level
    /\ Occurrences(BuiltNode, "low-battery") = 1
    /\ Occurrences(BuiltNode, "battery-level") = 0

\* a publish helper has returned a message for a property the schema declares
PublishedOnDeclared ==
    /\ pc = "published"
    /\ IsSome(out)
    /\ IsSome(get_property(desc[Unwrap(out).topic.node_id], Unwrap(out).topic.prop_id))

(* C12: every message a publish helper produces carries the retained flag    *)
(* the schema builder declared for the same property (e.g. thermostat       *)
(* 'mode', switch 'action', light scene 'recall').                          *)
C12_RetainedAsDeclared ==
    PublishedOnDeclared =>
        Unwrap(out).retain =
            Unwrap(get_property(desc[Unwrap(out).topic.node_id], Unwrap(out).topic.prop_id)).retained

(* C13: building a schema from a config whose enum token list is empty       *)
(* (light scene without scenes, button without actions, thermostat with     *)
(* mode=true and no modes) fails instead of producing a node description    *)
(* with an empty enum format: no built description has one.                 *)
C13_NoEmptyEnum ==
    \A i \in 1..Len(BuiltNode) :
        BuiltNode[i].desc.datatype = "Enum" => Len(BuiltNode[i].desc.format.values) > 0

(* C15: for every node type and every config, the property ids of the built  *)
(* node schema are pairwise distinct: each property the builder adds is in  *)
(* the schema under its own id, none replaced by another.                   *)
C15_DistinctPropertyIds ==
    /\ \A i, j \in 1..Len(BuiltNode) : BuiltNode[i].id = BuiltNode[j].id => i = j
    /\ Len(BuiltNode) =
            Cardinality(AlwaysProps(cfg.kind)) + Cardinality({g \in Gates(cfg) : g[2]})

\* the orientation node: four properties under four ids
C15_Witness ==
    /\ cfg.kind = "orientation"
    /\ Len(BuiltNode) = Cardinality(AlwaysProps("orientation"))
    /\ {BuiltNode[i].id : i \in 1..Len(BuiltNode)} = AlwaysProps("orientation")

----------------------------------------------------------------------------
(* C14: match_parse has no side effects: a call changes nothing but its      *)
(* result, and in particular writes nothing to standard output, for every   *)
(* node type, the light scene node included.                                *)
C14_NoOutput == Parsed => stdout = <<>>

----------------------------------------------------------------------------
\* the call is a set on the thermostat's own set-temperature property, declared
\* with a step
OnSteppedSetTemperature ==
    /\ cfg.kind = "thermostat"
    /\ SameIdentity
    /\ Target.prop_id = "set-temperature"
    /\ IsSome(cfg.temp_range.step)

----------------------------------------------------------------------------
\* the eight alert ids, as the specification lists them
HcAlertIds ==
    {"hc-battery-low", "hc-battery-critical", "hc-unreachable", "hc-update-overdue",
     "hc-config-error", "hc-sensor-fault", "hc-tamper", "hc-comm-error"}

(* C17: SmarthomeAlert::from_id is the exact inverse of as_str: for each of  *)
(* the eight variants a, from_id(a.as_str()) is Some(a), the eight ids are  *)
(* the 'hc-' names, and from_id of any other string, a name without the     *)
(* 'hc-' prefix included, is None.                                          *)
C17_FromIdInverse ==
    IsSome(alert_parsed) =>
        /\ IsSome(alert) =>
                /\ Unwrap(alert_parsed) = alert
                /\ Unwrap(alert_id) \in HcAlertIds
        /\ Unwrap(alert_id) \notin HcAlertIds => Unwrap(alert_parsed) = None
        /\ Unwrap(alert_id) \in HcAlertIds =>
                /\ IsSome(Unwrap(alert_parsed))
                /\ SmarthomeAlert_as_str(Unwrap(Unwrap(alert_parsed))) = Unwrap(alert_id)

\* BatteryLow went through as_str and from_id and came back
C17_Witness ==
    /\ alert = Some("BatteryLow")
    /\ alert_id = Some("hc-battery-low")
    /\ alert_parsed = Some(Some("BatteryLow"))

\* a name without the prefix was handed to from_id
C17_WitnessNoPrefix ==
    /\ alert_id = Some("battery-low")
    /\ alert_parsed = Some(None)

----------------------------------------------------------------------------
(* Vocabulary of the properties checked under SpecDevice. *)

\* the loop has handled an event of the given type last
Handled(type) == IsSome(event) /\ Unwrap(event).type = type

\* w is the publish of the given device state
IsStatePublish(w, state) ==
    /\ w.op = "publish"
    /\ w.topic.attr = "$state"
    /\ w.payload = state

IsDescription(w) == w.op = "publish" /\ w.topic.attr = "$description"

IsSubscribe(w) == w.op = "subscribe"

\* w is the publish of a value or a target of a property of one of the nodes
IsPropertyValue(w) ==
    /\ w.op = "publish"
    /\ w.topic.attr \in {"value", "$target"}
    /\ w.topic.node_id \in DeviceNodeIds

\* w publishes payload under the given attribute of a property
PublishesOn(w, n, p, attr, payload) ==
    /\ w.op = "publish"
    /\ w.topic.domain = "homie"
    /\ w.topic.id = "test-hc-smarthome-1"
    /\ w.topic.node_id = n
    /\ w.topic.prop_id = p
    /\ w.topic.attr = attr
    /\ w.payload = payload

BoolLiteral(b) == IF b THEN S_true ELSE S_false

\* the items of w that concern node n
NodeItems(w, n) == SelectSeq(w, LAMBDA x : x.topic.node_id = n)

\* the initial values of a connection carry the local state of the loop
CarriesCurrentValues(w) ==
    /\ \E i \in 1..Len(w) : PublishesOn(w[i], "switch", "state", "value", BoolLiteral(switch_state))
    /\ \E i \in 1..Len(w) : PublishesOn(w[i], "switch2", "state", "value", BoolLiteral(switch_state2))
    /\ \E i \in 1..Len(w) : PublishesOn(w[i], "dimmer", "brightness", "value", I64ToString(dimmer_state))
    /\ \E i \in 1..Len(w) : PublishesOn(w[i], "weather", "temperature", "value", <<"1", "2", ".", "4">>)
    /\ \E i \in 1..Len(w) : PublishesOn(w[i], "maintenance", "reachable", "value", S_true)

(* C18: on every ConnAck the device loop publishes device state Init first,  *)
(* then the description, then subscribes to its properties, then publishes  *)
(* the current property values, and publishes state Ready last; Ready is    *)
(* never published before the description and the initial values of that    *)
(* connection, and no other event makes the loop publish a device state.    *)
C18_ConnAckOrder ==
    /\ Handled("ConnAck") =>
            /\ Len(wire) >= 5
            /\ IsStatePublish(wire[1], S_init)
            /\ IsDescription(wire[2])
            /\ IsSubscribe(wire[3])
            /\ \A i \in 4..(Len(wire) - 1) : IsPropertyValue(wire[i])
            /\ CarriesCurrentValues(wire)
            /\ IsStatePublish(wire[Len(wire)], S_ready)
            /\ \A i \in 1..(Len(wire) - 1) : ~IsStatePublish(wire[i], S_ready)
    /\ ~Handled("ConnAck") => \A i \in 1..Len(wire) : IsPropertyValue(wire[i])

\* a reconnect after the switch was turned on and the dimmer raised to 100
C18_Witness ==
    /\ Handled("ConnAck")
    /\ switch_state
    /\ dimmer_state = 100
    /\ Len(wire) = 14
    /\ IsStatePublish(wire[14], S_ready)

----------------------------------------------------------------------------
\* e is a set command the switch node n accepts: 'true' or 'false' on its
\* state property, or 'toggle' on its action property
AcceptedSwitchSet(e, n) ==
    /\ IsSome(e)
    /\ Unwrap(e).type = "PropertySet"
    /\ Unwrap(e).property = PropertyRef("homie", "test-hc-smarthome-1", n, Unwrap(e).property.prop_id)
    /\ \/ Unwrap(e).property.prop_id = "state" /\ Unwrap(e).set_value \in {S_true, S_false}
       \/ Unwrap(e).property.prop_id = "action" /\ Unwrap(e).set_value = S_toggle

SwitchStateOf(n) == IF n = "switch" THEN switch_state ELSE switch_state2

\* the value v the command asks for: State(v), or Toggle with v = not the
\* state before
CommandValue(e, n) ==
    IF Unwrap(e).property.prop_id = "state"
    THEN Unwrap(e).set_value = S_true
    ELSE ~SwitchStateOf(n)

\* the step handles an accepted set command of node n as the claim says
SwitchAnswered(n) ==
    AcceptedSwitchSet(event', n) =>
        /\ Len(NodeItems(wire', n)) = 2
        /\ PublishesOn(NodeItems(wire', n)[1], n, "state", "$target", BoolLiteral(CommandValue(event', n)))
        /\ PublishesOn(NodeItems(wire', n)[2], n, "state", "value", BoolLiteral(CommandValue(event', n)))
        /\ (IF n = "switch" THEN switch_state' ELSE switch_state2') = CommandValue(event', n)

\* the last value published for switch node n is its local state
LastValueIsState(n) ==
    IsSome(last_value[n]) => Unwrap(last_value[n]) = BoolLiteral(SwitchStateOf(n))

(* C19: every accepted switch set command (State(v), or Toggle with v = not  *)
(* the current state) is answered within its handler by a publish of the    *)
(* target v followed by a publish of the value v on the same node, and      *)
(* afterwards the node's local state is v; after any sequence of events the *)
(* last published value of a switch equals its local state.                 *)
C19_SwitchAnswered ==
    /\ [][\A n \in {"switch", "switch2"} : SwitchAnswered(n)]_vars
    /\ [](\A n \in {"switch", "switch2"} : LastValueIsState(n))

\* switch2 was toggled on: target true, then value true, and the state is true
C19_Witness ==
    /\ Handled("PropertySet")
    /\ Unwrap(event).property = PropertyRef("homie", "test-hc-smarthome-1", "switch2", "action")
    /\ Unwrap(event).set_value = S_toggle
    /\ switch_state2
    /\ Len(wire) = 2
    /\ PublishesOn(wire[1], "switch2", "state", "$target", S_true)
    /\ PublishesOn(wire[2], "switch2", "state", "value", S_true)
    /\ last_value["switch2"] = Some(S_true)

----------------------------------------------------------------------------
\* the range the schema advertises for the dimmer's brightness
AdvertisedBrightness == Unwrap(get_property(ddesc["dimmer"], "brightness")).format

\* w, when it publishes a brightness value or target, stays inside that range
BrightnessAdvertised(w) ==
    (w.op = "publish" /\ w.topic.node_id = "dimmer" /\ w.topic.prop_id = "brightness") =>
        /\ IsSome(ParseI64(w.payload))
        /\ InRange(Unwrap(ParseI64(w.payload)), AdvertisedBrightness)

(* C20: after any sequence of accepted Brightness set events and Brighter /  *)
(* Darker actions the dimmer's brightness state stays within 0..100, and    *)
(* every brightness value and target the loop publishes lies inside the     *)
(* range the schema advertises.                                             *)
C20_BrightnessInRange ==
    /\ dimmer_state \in 0..100
    /\ \A i \in 1..Len(wire) : BrightnessAdvertised(wire[i])

\* Brighter arrived and the brightness stands at the upper end
C20_Witness ==
    /\ Handled("PropertySet")
    /\ Unwrap(event).property = PropertyRef("homie", "test-hc-smarthome-1", "dimmer", "action")
    /\ Unwrap(event).set_value = S_brighter
    /\ dimmer_state = 100
    /\ Len(wire) = 2
    /\ PublishesOn(wire[1], "dimmer", "brightness", "$target", S_100)
    /\ PublishesOn(wire[2], "dimmer", "brightness", "value", S_100)

----------------------------------------------------------------------------
\* e is a PropertySet addressed to node n of the device itself
AddressedTo(e, n) ==
    /\ IsSome(e)
    /\ Unwrap(e).type = "PropertySet"
    /\ Unwrap(e).property.domain = "homie"
    /\ Unwrap(e).property.id = "test-hc-smarthome-1"
    /\ Unwrap(e).property.node_id = n

\* the property ids the nodes of the device take set commands on
SetPropsOf(n) ==
    CASE n \in {"switch", "switch2"} -> {"state", "action"}
      [] n = "dimmer" -> {"brightness", "action"}
      [] OTHER -> {}

\* e is a PropertySet that matches no node: it is addressed to another device,
\* or to a property id its node does not have
MatchesNoNode(e) ==
    /\ IsSome(e)
    /\ Unwrap(e).type = "PropertySet"
    /\ \A n \in DeviceNodeIds :
            AddressedTo(e, n) => Unwrap(e).property.prop_id \notin SetPropsOf(n)

\* a step handling a PropertySet addressed to switch node n leaves the rest alone
OnlyNodeTouched(n) ==
    AddressedTo(event', n) =>
        /\ (n = "switch" => switch_state2' = switch_state2)
        /\ (n = "switch2" => switch_state' = switch_state)
        /\ dimmer_state' = dimmer_state
        /\ \A i \in 1..Len(wire') : wire'[i].topic.node_id = n

\* a step handling a PropertySet that matches no node does nothing
NoNodeNoEffect ==
    MatchesNoNode(event') =>
        /\ switch_state' = switch_state
        /\ switch_state2' = switch_state2
        /\ dimmer_state' = dimmer_state
        /\ wire' = <<>>

(* C21: in the device loop with the two switch nodes 'switch' and 'switch2', *)
(* a PropertySet addressed to one of them changes only that node's local    *)
(* state and triggers publishes only for that node; the other switch's      *)
(* state and the dimmer's state are unchanged, and a message that matches   *)
(* no node changes no state and publishes nothing.                          *)
C21_OnlyAddressedNode ==
    [][/\ \A n \in {"switch", "switch2"} : OnlyNodeTouched(n)
       /\ NoNodeNoEffect]_vars

\* switch2 was set to true while switch was off and the dimmer stood at 100:
\* only switch2 changed and only switch2 was published
C21_Witness ==
    /\ AddressedTo(event, "switch2")
    /\ Unwrap(event).property.prop_id = "state"
    /\ Unwrap(event).set_value = S_true
    /\ switch_state2
    /\ ~switch_state
    /\ dimmer_state = 100
    /\ Len(wire) = 2
    /\ \A i \in 1..Len(wire) : wire[i].topic.node_id = "switch2"

----------------------------------------------------------------------------
\* a publish helper of the maintenance publisher has returned
MaintenanceCalled == pc = "published" /\ cfg.kind = "maintenance"

\* the property a maintenance helper publishes
MaintenancePropOf(h) ==
    CASE h = "low_battery" -> "low-battery"
      [] h = "battery_level" -> "battery-level"
      [] h = "last_update" -> "last-update"
      [] h = "reachable" -> "reachable"

\* the config flag that goes with a maintenance helper
MaintenanceFlagOf(config, h) ==
    CASE h = "low_battery" -> config.low_battery
      [] h = "battery_level" -> config.battery_level
      [] h = "last_update" -> config.last_update
      [] h = "reachable" -> config.reachable

(* C22: each MaintenanceNodePublisher helper (low_battery, battery_level,    *)
(* last_update, reachable) returns Some(message) if and only if the         *)
(* corresponding flag of the config is true, i.e. exactly when the property *)
(* is present in the schema built from that config; with the default config *)
(* low_battery, last_update and reachable return Some and battery_level     *)
(* returns None.                                                            *)
C22_MaintenanceSomeIffFlag ==
    MaintenanceCalled =>
        /\ IsSome(out) <=> MaintenanceFlagOf(cfg, Unwrap(sent).helper)
        /\ IsSome(out) <=> IsSome(get_property(BuiltNode, MaintenancePropOf(Unwrap(sent).helper)))
        /\ IsSome(out) => Unwrap(out).topic.prop_id = MaintenancePropOf(Unwrap(sent).helper)
        /\ cfg = DeviceConfig("maintenance") =>
                /\ Unwrap(sent).helper \in {"low_battery", "last_update", "reachable"} => IsSome(out)
                /\ Unwrap(sent).helper = "battery_level" => out = None

\* battery_level was called on a publisher built from the default config and
\* returned None
C22_Witness ==
    /\ MaintenanceCalled
    /\ cfg.low_battery /\ cfg.last_update /\ cfg.reachable /\ ~cfg.battery_level
    /\ Unwrap(sent).helper = "battery_level"
    /\ out = None

----------------------------------------------------------------------------
(* C24: for every node type and every config, a publish helper yields an     *)
(* outbound message only for a property that is present in the schema built *)
(* from the same config: WeatherNodePublisher::pressure with pressure=false,*)
(* ThermostatNodePublisher::valve / mode with valve=false / mode=false and  *)
(* MotionNodePublisher::lux with lux=false produce no message.              *)
C24_PublishOnlyDeclared ==
    (pc = "published" /\ IsSome(out)) =>
        IsSome(get_property(BuiltNode, Unwrap(out).topic.prop_id))

----------------------------------------------------------------------------
\* the set addresses a property the schema of the own node declares as not
\* settable
OnNonSettable ==
    /\ SameIdentity
    /\ Declared
    /\ ~DeclaredDesc.settable

(* C25: a PropertySet on a property that the schema declares non-settable    *)
(* never yields a domain event: for a switch, dimmer, colorlight or light   *)
(* scene node built with settable=false, match_parse returns None for every *)
(* payload on every property of that node.                                  *)
C25_NonSettableNone == (Parsed /\ OnNonSettable) => ev = None

----------------------------------------------------------------------------
\* the tokens the action type of a node type knows
KnownTokens(kind) ==
    CASE kind = "switch" -> {S_toggle}
      [] kind = "dimmer" -> {S_brighter, S_darker}
      [] kind = "shutter" -> {S_up, S_down, S_stop}
      [] kind = "thermostat" ->
            {S_off, S_auto, S_manual, S_party, S_boost, S_cool, S_heat, S_emergency_heating,
             S_precooling, S_fan_only, S_dry, S_sleep}

\* the payload is one of the values the description's enum format lists for
\* the addressed property of the own node
PassesEnumValidation ==
    /\ SameIdentity
    /\ Target.prop_id = EnumPropOf(cfg.kind)
    /\ Declared
    /\ DeclaredDesc.datatype = "Enum"
    /\ \E i \in 1..Len(DeclaredDesc.format.values) : DeclaredDesc.format.values[i] = Payload

(* C23: an enum payload that passes the description's enum-format validation *)
(* but has no domain mapping in the publisher's action type yields None:    *)
(* for a switch, dimmer, shutter or thermostat publisher probed with a      *)
(* description whose enum lists a token other than the ones the node type   *)
(* knows, match_parse returns None for that token; a listed token the node  *)
(* type knows yields an event.                                              *)
C23_UnknownTokenNone ==
    (Parsed /\ PassesEnumValidation) =>
        /\ Payload \notin KnownTokens(cfg.kind) => ev = None
        /\ Payload \in KnownTokens(cfg.kind) => IsSome(ev)

\* 'abc', listed by the description of a switch's action property, was set
\* and gave no event
C23_Witness ==
    /\ Parsed
    /\ cfg.kind = "switch"
    /\ PassesEnumValidation
    /\ Payload = S_abc
    /\ ev = None

----------------------------------------------------------------------------
\* a conversion from the given kind of string is under way
Converting(from) == IsSome(conv_call) /\ Unwrap(conv_call).from = from

\* the conversion has returned to its caller
Converted == IsSome(conv_result)

(* C26: the conversion TryFrom<String> for ThermostatNodeModes terminates    *)
(* for every input string and returns the same result as TryFrom<&str> on   *)
(* the same text: Ok(mode) for the twelve known tokens, Err(InvalidPayload) *)
(* otherwise.                                                               *)
C26_StringConversionTerminates ==
    /\ Converting("String") ~> Converted
    /\ [](Converted => Unwrap(conv_result) = ThermostatNodeModes_try_from(Unwrap(conv_call).text))

\* what does hold: the conversion from &str returns for every text
C26_StrConversionTerminates == Converting("&str") ~> Converted

============================================================================
